---- MODULE Spec2Model ----
(***************************************************************************)
(* Model of the incremental, resumable scanner and workload analyzer of    *)
(* x-ray-mysql:                                                            *)
(*   backend/scanner_engine.py   MySQLPoolManager, ScanPersistence,        *)
(*                               DatabaseScannerEngine                     *)
(*   backend/workload_engine.py  WorkloadPersistence,                      *)
(*                               WorkloadAnalyzerEngine                    *)
(* The specifications share the variables:                                 *)
(*   Spec        one DatabaseScannerEngine driving the start_scan runs of  *)
(*               one job, with cancel(), process crashes and catalog       *)
(*               changes between runs;                                     *)
(*   SpecLive    the runs of Spec over an unchanging catalog, with the     *)
(*               fairness of a task that keeps being scheduled while its   *)
(*               process lives;                                            *)
(*   SpecPersist the ScanPersistence methods called in any order;          *)
(*   SpecRetry   one call of MySQLPoolManager.execute_with_retry against a *)
(*               connector whose outcome is chosen per attempt;            *)
(*   SpecPool    several tasks in execute_with_retry on one manager, each  *)
(*               await a point where the others may run;                   *)
(*   SpecWorkload      one WorkloadAnalyzerEngine driving the              *)
(*               start_analysis runs of one job, with cancel() and         *)
(*               process crashes;                                          *)
(*   SpecWorkloadStore the runs of SpecWorkload with other clients of the  *)
(*               store calling WorkloadPersistence in between;             *)
(*   SpecIssues  _detect_table_issues applied once to each list of         *)
(*               arguments the introspector can hand it;                   *)
(*   SpecPoll    clients calling get_progress of both engines while jobs   *)
(*               are created and written;                                  *)
(*   SpecBatch   the runs of one job over a catalog of more tables than    *)
(*               one batch holds;                                          *)
(*   SpecShared  the runs of Spec with other tasks calling start_scan on   *)
(*               the same engine.                                          *)
(* Times are in seconds, progress_percentage in hundredths of a percent    *)
(* for scan jobs and in percent for workload jobs.                         *)
(***************************************************************************)
EXTENDS Integers, Sequences, FiniteSets, TLC

(* ------------------------------ bounds --------------------------------- *)
\* tables of the target database are named 1..NumTables
NumTables == 2
\* start_scan calls of one behaviour
MaxRuns == 2
\* changes of the catalog's table list of one behaviour
MaxDbChanges == 1

(* -------------------------- program constants -------------------------- *)
BATCH_SIZE == 10

TableNames == 1..NumTables
\* current_table = None
NoTable == 0
\* resume_scan_id = None
NoScanId == 0

\* Python's None, what find_one returns when no document matches
None == [none |-> TRUE]
\* Spec follows one scan job through its runs; SpecPersist holds two
ScanIds == {1}
PersistIds == {1, 2}

Range(s) == {s[k] : k \in DOMAIN s}

Min(a, b) == IF a < b THEN a ELSE b

(* ----------------- catalog facts (information_schema) ------------------ *)
\* total_mb of a table as get_real_tables reports it
TotalMb(t) == t
\* row_count of a table as get_real_tables reports it
RowCount(t) == 10 * t
\* the indexes get_table_indexes groups for a table: every table has PRIMARY
IndexCount(t) == 1
\* the foreign keys of a table, none of them covered by an index
FkCount(t) == t - 1
\* the tables whose metadata queries can outlast TABLE_TIMEOUT: the largest
SlowTables == {NumTables}

(* ------------------------------ rounding -------------------------------- *)
\* round(x, 2) of the rational num/den >= 0, in hundredths, ties to even
RoundHundredths(num, den) ==
    LET q == (num * 100) \div den
        r == (num * 100) % den
    IN  IF 2 * r > den THEN q + 1
        ELSE IF 2 * r < den THEN q
        ELSE q + (q % 2)

\* round((processed / total) * 100, 2) if total > 0 else 0, in hundredths
Percentage(processed, total) ==
    IF total > 0 THEN RoundHundredths(processed * 100, total) ELSE 0

(* --------------------------- ScanPersistence --------------------------- *)
HasScan(sc, sid) == \E k \in DOMAIN sc : sc[k].scan_id = sid

\* the document update_one / find_one matches: the first with that scan_id
ScanIdx(sc, sid) ==
    CHOOSE k \in DOMAIN sc :
        /\ sc[k].scan_id = sid
        /\ \A m \in DOMAIN sc : sc[m].scan_id = sid => k <= m

get_scan(sc, sid) == IF HasScan(sc, sid) THEN sc[ScanIdx(sc, sid)] ELSE None

ZeroStats == [total_size_mb |-> 0, total_rows |-> 0,
              total_indexes |-> 0, issues_found |-> 0]

\* stats_delta = None
NoDelta == [key \in {} |-> 0]

create_scan(sc, sid, total) ==
    Append(sc, [scan_id |-> sid,
                status |-> "pending",
                total_tables |-> total,
                processed_tables |-> 0,
                current_table |-> NoTable,
                progress_percentage |-> 0,
                last_processed_table |-> NoTable,
                errors |-> <<>>,
                stats |-> ZeroStats])

\* $set in place of $inc: the delta replaces the counter
SetStats(stats, delta) ==
    [key \in DOMAIN stats |->
        IF key \in DOMAIN delta THEN delta[key] ELSE stats[key]]

\* $inc of stats.<key> by each delta
IncStats(stats, delta) ==
    [key \in DOMAIN stats |->
        IF key \in DOMAIN delta THEN stats[key] + delta[key] ELSE stats[key]]

update_scan_progress(sc, sid, current, processed, total, delta) ==
    IF ~HasScan(sc, sid) THEN sc
    ELSE [sc EXCEPT ![ScanIdx(sc, sid)] =
            [@ EXCEPT !.current_table = current,
                      !.processed_tables = processed,
                      !.progress_percentage = Percentage(processed, total),
                      !.last_processed_table = current,
                      !.status = "running",
                      !.stats = IF DOMAIN delta = {} THEN @
                                ELSE IncStats(@, delta)]]

HasResult(tc, sid, t) ==
    \E k \in DOMAIN tc : tc[k].scan_id = sid /\ tc[k].table_name = t

ResultIdx(tc, sid, t) ==
    CHOOSE k \in DOMAIN tc :
        /\ tc[k].scan_id = sid /\ tc[k].table_name = t
        /\ \A m \in DOMAIN tc :
              (tc[m].scan_id = sid /\ tc[m].table_name = t) => k <= m


\* insert_one in place of the upsert
insert_table_result(tc, doc) == Append(tc, doc)

\* update_one(filter (scan_id, table_name), $set doc, upsert = True)
save_table_result(tc, doc) ==
    IF HasResult(tc, doc.scan_id, doc.table_name)
    THEN [tc EXCEPT ![ResultIdx(tc, doc.scan_id, doc.table_name)] = doc]
    ELSE Append(tc, doc)

get_processed_tables(tc, sid) ==
    {tc[k].table_name : k \in {m \in DOMAIN tc : tc[m].scan_id = sid}}

mark_scan_completed(sc, sid) ==
    IF ~HasScan(sc, sid) THEN sc
    ELSE [sc EXCEPT ![ScanIdx(sc, sid)] =
            [@ EXCEPT !.status = "completed", !.current_table = NoTable]]


\* a write of ScanStatus.PAUSED in place of FAILED
mark_scan_paused(sc, sid, error) ==
    IF ~HasScan(sc, sid) THEN sc
    ELSE [sc EXCEPT ![ScanIdx(sc, sid)] =
            [@ EXCEPT !.status = "paused",
                      !.errors = Append(@, [message |-> error])]]

mark_scan_failed(sc, sid, error) ==
    IF ~HasScan(sc, sid) THEN sc
    ELSE [sc EXCEPT ![ScanIdx(sc, sid)] =
            [@ EXCEPT !.status = "failed",
                      !.errors = Append(@, [message |-> error])]]


\* the error write also sets the status, as mark_scan_failed does
add_table_error_failing(sc, sid, t, error) ==
    IF ~HasScan(sc, sid) THEN sc
    ELSE [sc EXCEPT ![ScanIdx(sc, sid)] =
            [@ EXCEPT !.status = "failed",
                      !.errors = Append(@, [table |-> t, message |-> error])]]

add_table_error(sc, sid, t, error) ==
    IF ~HasScan(sc, sid) THEN sc
    ELSE [sc EXCEPT ![ScanIdx(sc, sid)] =
            [@ EXCEPT !.errors = Append(@, [table |-> t, message |-> error])]]

log_event(lc, sid, event_type) ==
    Append(lc, [scan_id |-> sid, event_type |-> event_type])


(* ------------------------------ variables ------------------------------ *)
VARIABLES
    db,                 \* the base tables now present in the target database
    scans_collection,   \* db.database_scans
    tables_collection,  \* db.scan_tables
    logs_collection,    \* db.scan_logs
    cancel_flag,        \* DatabaseScannerEngine._cancel_flag
    pc,                 \* where the start_scan task stands
    scan_id,            \* locals of start_scan
    total_tables,
    processed_tables,
    tables_to_process,
    processed_count,
    i,                  \* offset of the current batch in tables_to_process
    n,                  \* units of the current batch already iterated
    result,             \* the TableScanResult of the unit, <<>> before analysis
    outcome,            \* how the last start_scan call ended
    failed,             \* tables whose analysis raised in this run
    visited,            \* units this run took to their end, in order
    raised,             \* scan ids under which some analysis raised
    nruns,              \* start_scan calls that got past the listing
    resumed_id,         \* resume_scan_id of the latest start_scan call
    started,            \* the (scan id, table) pairs whose progress write
                        \* before the unit has been stored
    timed_out,          \* the (run, table) pairs whose metadata fetch hit
                        \* TABLE_TIMEOUT
    cancel_requested,   \* cancel() was called since the latest start_scan
                        \* call of the task this model follows
    ndbchanges,         \* catalog changes so far
    pcalls,             \* SpecPersist: the ScanPersistence calls made so far
    retry_attempts,     \* MySQLPoolManager.retry_attempts
    pool,               \* MySQLPoolManager.pool: NoPool or a pool's identity
    closed_pools,       \* the pools close() was called on
    npools,             \* pools aiomysql.create_pool has built
    rpc,                \* where the execute_with_retry call stands
    attempt,            \* its loop variable
    last_error,         \* its local last_error
    retry_result,       \* what the call returned or raised
    nattempts,          \* attempts started
    last_outcome,       \* what the connector did in the latest attempt
    only_retryable,     \* every attempt so far raised a retryable code
    sleeps,             \* the delays handed to asyncio.sleep, per failure
    waits,              \* the time from each failure to what follows it
    analyses,           \* db.workload_analyses
    w_cancel_flag,      \* WorkloadAnalyzerEngine._cancel_flag
    wpc,                \* where the start_analysis task stands
    analysis_id,        \* locals of start_analysis
    completed_phases,
    summary,
    phase_idx,          \* position of its loop in PHASES
    executed,           \* phase ids _execute_phase was called for, this run
    resumed_from,       \* phases_completed of the job when the run began
    w_outcome,          \* how the last start_analysis call ended
    wruns,              \* start_analysis calls that found or created a job
    wcalls,             \* WorkloadPersistence calls made by other clients
    last_wcall,         \* the latest of them
    queries,            \* db.workload_queries
    stats,              \* db.workload_stats
    closing_pools,      \* the pools close() was called on (closed_pools:
                        \* those whose wait_closed() has returned)
    lock_owner,         \* the caller inside `async with self._lock`
    cpc,                \* where each caller of execute_with_retry stands
    cpool,              \* its local `pool`, what get_pool returned to it
    ctarget,            \* the pool whose wait_closed() it awaits
    cattempt,           \* its loop variable
    cerr,               \* the kind of error its latest attempt raised
    table_info,         \* arguments of a _detect_table_issues call
    indexes,
    partitions,
    foreign_keys,
    issues,             \* the list it returned
    dpc,                \* whether it has returned
    npolls,             \* get_progress calls made so far
    polled,             \* the engine and the id of the latest of them
    poll_result         \* what it returned

storeVars == <<scans_collection, tables_collection, logs_collection>>
frameVars == <<scan_id, total_tables, processed_tables, tables_to_process,
               processed_count, i, n, result>>
ghostVars == <<outcome, failed, visited, raised, nruns, resumed_id,
              started, timed_out, cancel_requested, ndbchanges>>
scanVars == <<db, storeVars, cancel_flag, pc, frameVars, ghostVars>>
retryVars == <<retry_attempts, pool, closed_pools, npools, rpc, attempt,
               last_error, retry_result, nattempts, last_outcome,
               only_retryable, sleeps, waits>>
clientVars == <<wcalls, last_wcall>>
recordVars == <<queries, stats>>
workVars == <<analyses, w_cancel_flag, wpc, analysis_id, completed_phases,
              summary, phase_idx, executed, resumed_from, w_outcome, wruns,
              clientVars, recordVars>>
callerVars == <<closing_pools, lock_owner, cpc, cpool, ctarget, cattempt,
                cerr>>
issueVars == <<table_info, indexes, partitions, foreign_keys, issues, dpc>>
pollVars == <<npolls, polled, poll_result>>
sideVars == <<issueVars, pollVars>>
\* what the engine's steps leave alone
auxVars == <<pcalls, retryVars, workVars, callerVars, sideVars>>

(* -------------------------- TableIntrospector -------------------------- *)
\* ORDER BY DATA_LENGTH DESC: the listing, largest table first
RECURSIVE get_real_tables(_)
get_real_tables(present) ==
    IF present = {} THEN <<>>
    ELSE LET big == CHOOSE t \in present :
                        \A u \in present : TotalMb(u) <= TotalMb(t)
         IN  <<big>> \o get_real_tables(present \ {big})


\* the filter left out: every listed table is pending
PendingUnfiltered(tables, processed) == tables

\* [t for t in tables if t['table_name'] not in processed_tables]
Pending(tables, processed) ==
    LET keep(t) == t \notin processed IN SelectSeq(tables, keep)

(* ------------------------ DatabaseScannerEngine ------------------------ *)
\* _analyze_table: metadata is "full", or "empty" after the table timeout
TableScanResult(sid, t, metadata) ==
    [scan_id |-> sid,
     table_name |-> t,
     size_mb |-> TotalMb(t),
     row_count |-> RowCount(t),
     indexes |-> IF metadata = "full" THEN IndexCount(t) ELSE 0,
     \* _detect_table_issues: one fk_without_index per uncovered foreign key
     issues |-> IF metadata = "full" THEN FkCount(t) ELSE 0,
     metadata |-> metadata]

NoResult == <<>>

StatsDelta(res) ==
    [total_size_mb |-> res.size_mb,
     total_rows |-> res.row_count,
     total_indexes |-> res.indexes,
     issues_found |-> res.issues]

\* the unit the inner loop stands at
table_name == tables_to_process[i + n + 1]

\* len(batch), batch = tables_to_process[i:i + BATCH_SIZE]
BatchLen == Min(BATCH_SIZE, Len(tables_to_process) - i)

ResetFrame ==
    /\ total_tables' = 0
    /\ processed_tables' = {}
    /\ tables_to_process' = <<>>
    /\ processed_count' = 0
    /\ i' = 0
    /\ n' = 0
    /\ result' = NoResult
    /\ failed' = {}
    /\ visited' = <<>>

\* a scan id uuid4 has not handed out yet
FreshScanId ==
    CHOOSE sid \in ScanIds :
        /\ ~HasScan(scans_collection, sid)
        /\ \A other \in ScanIds :
              ~HasScan(scans_collection, other) => sid <= other

\* the resume frontier taken from the job's processed_tables counter: the
\* first tables of the listing count as processed
StartScanByCounter(resume_scan_id) ==
    /\ pc = "idle"
    /\ nruns < MaxRuns
    /\ db # {}
    /\ IF resume_scan_id # NoScanId
       THEN HasScan(scans_collection, resume_scan_id)
       ELSE \E sid \in ScanIds : ~HasScan(scans_collection, sid)
    /\ nruns' = nruns + 1
    /\ resumed_id' = resume_scan_id
    /\ cancel_flag' = FALSE
    /\ cancel_requested' = FALSE
    /\ total_tables' = Len(get_real_tables(db))
    /\ IF resume_scan_id # NoScanId
       THEN /\ scan_id' = resume_scan_id
            /\ processed_tables' =
                   Range(SubSeq(get_real_tables(db), 1,
                         Min(get_scan(scans_collection,
                                      resume_scan_id).processed_tables,
                             Len(get_real_tables(db)))))
            /\ UNCHANGED scans_collection
       ELSE /\ scan_id' = FreshScanId
            /\ scans_collection' =
                   create_scan(scans_collection, FreshScanId,
                               Len(get_real_tables(db)))
            /\ processed_tables' = {}
    /\ tables_to_process' = Pending(get_real_tables(db), processed_tables')
    /\ processed_count' = Cardinality(processed_tables')
    /\ i' = 0
    /\ n' = 0
    /\ result' = NoResult
    /\ failed' = {}
    /\ visited' = <<>>
    /\ outcome' = "running"
    /\ pc' = "log_start"
    /\ UNCHANGED <<db, tables_collection, logs_collection, raised, started, timed_out,
                   ndbchanges>>
    /\ UNCHANGED auxVars

\* start_scan up to the job record: get_real_tables answers, the listing is
\* not empty, the job is created or found
StartScan(resume_scan_id) ==
    /\ pc = "idle"
    /\ nruns < MaxRuns
    /\ db # {}
    /\ IF resume_scan_id # NoScanId
       THEN HasScan(scans_collection, resume_scan_id)
       ELSE \E sid \in ScanIds : ~HasScan(scans_collection, sid)
    /\ nruns' = nruns + 1
    /\ resumed_id' = resume_scan_id
    /\ cancel_flag' = FALSE
    /\ cancel_requested' = FALSE
    /\ total_tables' = Len(get_real_tables(db))
    /\ IF resume_scan_id # NoScanId
       THEN /\ scan_id' = resume_scan_id
            /\ processed_tables' =
                   get_processed_tables(tables_collection, resume_scan_id)
            /\ UNCHANGED scans_collection
       ELSE /\ scan_id' = FreshScanId
            /\ scans_collection' =
                   create_scan(scans_collection, FreshScanId,
                               Len(get_real_tables(db)))
            /\ processed_tables' = {}
    /\ tables_to_process' = Pending(get_real_tables(db), processed_tables')
    /\ processed_count' = Cardinality(processed_tables')
    /\ i' = 0
    /\ n' = 0
    /\ result' = NoResult
    /\ failed' = {}
    /\ visited' = <<>>
    /\ outcome' = "running"
    /\ pc' = "log_start"
    /\ UNCHANGED <<db, tables_collection, logs_collection, raised, started, timed_out,
                   ndbchanges>>
    /\ UNCHANGED auxVars


\* the job record written before the listing is looked at
StartScanRaisesLate(resume_scan_id, list_fails) ==
    /\ pc = "idle"
    /\ nruns < MaxRuns
    /\ \/ list_fails
       \/ db = {}
       \/ resume_scan_id # NoScanId /\ ~HasScan(scans_collection, resume_scan_id)
    /\ UNCHANGED nruns
    /\ resumed_id' = resume_scan_id
    /\ cancel_flag' = FALSE
    /\ cancel_requested' = FALSE
    /\ outcome' = "raised"
    /\ scan_id' = NoScanId
    /\ ResetFrame
    /\ scans_collection' =
           IF resume_scan_id = NoScanId
              /\ \E sid \in ScanIds : ~HasScan(scans_collection, sid)
           THEN create_scan(scans_collection, FreshScanId, 0)
           ELSE scans_collection
    /\ UNCHANGED <<db, tables_collection, logs_collection, pc, raised,
                   started, timed_out, ndbchanges>>
    /\ UNCHANGED auxVars

\* the scan_started event logged before the listing is looked at
StartScanRaisesLogged(resume_scan_id, list_fails) ==
    /\ pc = "idle"
    /\ nruns < MaxRuns
    /\ \/ list_fails
       \/ db = {}
       \/ resume_scan_id # NoScanId /\ ~HasScan(scans_collection, resume_scan_id)
    /\ UNCHANGED nruns
    /\ resumed_id' = resume_scan_id
    /\ cancel_flag' = FALSE
    /\ cancel_requested' = FALSE
    /\ outcome' = "raised"
    /\ scan_id' = NoScanId
    /\ ResetFrame
    /\ logs_collection' =
           log_event(logs_collection, resume_scan_id, "scan_started")
    /\ UNCHANGED <<db, scans_collection, tables_collection, pc, raised,
                   started, timed_out, ndbchanges>>
    /\ UNCHANGED auxVars

\* start_scan raises ValueError: no tables, or the resume target is unknown;
\* or get_real_tables raises once its retries are exhausted
StartScanRaises(resume_scan_id, list_fails) ==
    /\ pc = "idle"
    /\ nruns < MaxRuns
    /\ \/ list_fails
       \/ db = {}
       \/ resume_scan_id # NoScanId /\ ~HasScan(scans_collection, resume_scan_id)
    /\ UNCHANGED nruns
    /\ resumed_id' = resume_scan_id
    /\ cancel_flag' = FALSE
    /\ cancel_requested' = FALSE
    /\ outcome' = "raised"
    /\ scan_id' = NoScanId
    /\ ResetFrame
    /\ UNCHANGED <<db, storeVars, pc, raised, started, timed_out, ndbchanges>>
    /\ UNCHANGED auxVars

\* log_event(scan_id, "scan_started", ...)
LogStart ==
    /\ pc = "log_start"
    /\ logs_collection' = log_event(logs_collection, scan_id, "scan_started")
    /\ pc' = "batch"
    /\ UNCHANGED <<db, scans_collection, tables_collection, cancel_flag,
                   frameVars, ghostVars>>
    /\ UNCHANGED auxVars

\* head of `for i in range(0, len(tables_to_process), BATCH_SIZE)`
BatchHead ==
    /\ pc = "batch"
    /\ IF i >= Len(tables_to_process)
       THEN /\ pc' = "finish"
            /\ UNCHANGED logs_collection
       ELSE IF cancel_flag
       THEN /\ logs_collection' =
                   log_event(logs_collection, scan_id, "scan_cancelled")
            /\ pc' = "finish"
       ELSE /\ pc' = "unit"
            /\ UNCHANGED logs_collection
    /\ n' = 0
    /\ UNCHANGED <<db, scans_collection, tables_collection, cancel_flag,
                   scan_id, total_tables, processed_tables, tables_to_process,
                   processed_count, i, result, ghostVars>>
    /\ UNCHANGED auxVars

\* the unit is entered without the progress write before it
UnitHeadUnannounced ==
    /\ pc = "unit"
    /\ IF n >= BatchLen \/ cancel_flag
       THEN pc' = "sleep"
       ELSE pc' = "analyze"
    /\ UNCHANGED <<db, storeVars, cancel_flag, frameVars, ghostVars>>
    /\ UNCHANGED auxVars

\* head of `for table_info in batch`, and the progress write before the unit
UnitHead ==
    /\ pc = "unit"
    /\ IF n >= BatchLen \/ cancel_flag
       THEN /\ pc' = "sleep"
            /\ UNCHANGED <<scans_collection, started>>
       ELSE /\ scans_collection' =
                   update_scan_progress(scans_collection, scan_id, table_name,
                                        processed_count, total_tables, NoDelta)
            /\ started' = started \cup {<<scan_id, table_name>>}
            /\ pc' = "analyze"
    /\ UNCHANGED <<db, tables_collection, logs_collection, cancel_flag,
                   frameVars, outcome, failed, visited, raised, nruns,
                   resumed_id, timed_out, cancel_requested, ndbchanges>>
    /\ UNCHANGED auxVars

\* asyncio.TimeoutError leaves _analyze_table and the unit's handler takes it
AnalyzeTableTimeoutRaises(metadata) ==
    /\ pc = "analyze"
    /\ metadata = "empty" => table_name \in SlowTables
    /\ IF metadata = "empty"
       THEN /\ timed_out' = timed_out \cup {<<nruns, table_name>>}
            /\ pc' = "error"
            /\ UNCHANGED result
       ELSE /\ result' = TableScanResult(scan_id, table_name, metadata)
            /\ pc' = "save"
            /\ UNCHANGED timed_out
    /\ UNCHANGED <<db, storeVars, cancel_flag, scan_id, total_tables,
                   processed_tables, tables_to_process, processed_count, i, n,
                   outcome, failed, visited, raised, nruns, resumed_id,
                   started, cancel_requested, ndbchanges>>
    /\ UNCHANGED auxVars

\* _analyze_table returns a result (with empty metadata after the timeout)
AnalyzeTable(metadata) ==
    /\ pc = "analyze"
    /\ metadata = "empty" => table_name \in SlowTables
    /\ result' = TableScanResult(scan_id, table_name, metadata)
    /\ timed_out' = IF metadata = "empty"
                    THEN timed_out \cup {<<nruns, table_name>>}
                    ELSE timed_out
    /\ pc' = "save"
    /\ UNCHANGED <<db, storeVars, cancel_flag, scan_id, total_tables,
                   processed_tables, tables_to_process, processed_count, i, n,
                   outcome, failed, visited, raised, nruns, resumed_id,
                   started, cancel_requested, ndbchanges>>
    /\ UNCHANGED auxVars

\* _analyze_table raises (a metadata query fails for good)
AnalyzeRaises ==
    /\ pc = "analyze"
    /\ failed' = failed \cup {table_name}
    /\ raised' = raised \cup {scan_id}
    /\ pc' = "error"
    /\ UNCHANGED <<db, storeVars, cancel_flag, frameVars, outcome, visited,
                   nruns, resumed_id, started, timed_out, cancel_requested,
                   ndbchanges>>
    /\ UNCHANGED auxVars

SaveResult ==
    /\ pc = "save"
    /\ tables_collection' = save_table_result(tables_collection, result)
    /\ pc' = "post"
    /\ UNCHANGED <<db, scans_collection, logs_collection, cancel_flag,
                   frameVars, ghostVars>>
    /\ UNCHANGED auxVars

\* the progress write after the unit, then processed_count += 1
PostProgress ==
    /\ pc = "post"
    /\ scans_collection' =
           update_scan_progress(scans_collection, scan_id, table_name,
                                processed_count + 1, total_tables,
                                StatsDelta(result))
    /\ processed_count' = processed_count + 1
    /\ n' = n + 1
    /\ result' = NoResult
    /\ pc' = "unit"
    /\ UNCHANGED <<db, tables_collection, logs_collection, cancel_flag,
                   scan_id, total_tables, processed_tables, tables_to_process,
                   i, outcome, failed, raised, nruns, resumed_id, started, timed_out, cancel_requested,
                   ndbchanges>>
    /\ visited' = Append(visited, table_name)
    /\ UNCHANGED auxVars

\* except Exception: add_table_error, then processed_count += 1
UnitError ==
    /\ pc = "error"
    /\ scans_collection' =
           add_table_error(scans_collection, scan_id, table_name, "error")
    /\ processed_count' = processed_count + 1
    /\ n' = n + 1
    /\ result' = NoResult
    /\ pc' = "unit"
    /\ UNCHANGED <<db, tables_collection, logs_collection, cancel_flag,
                   scan_id, total_tables, processed_tables, tables_to_process,
                   i, outcome, failed, raised, nruns, resumed_id, started, timed_out, cancel_requested,
                   ndbchanges>>
    /\ visited' = Append(visited, table_name)
    /\ UNCHANGED auxVars

\* the next batch begins one unit early, at the last unit of this one
BatchSleepOverlapping ==
    /\ pc = "sleep"
    /\ i' = i + BATCH_SIZE - 1
    /\ n' = 0
    /\ pc' = "batch"
    /\ UNCHANGED <<db, storeVars, cancel_flag, scan_id, total_tables,
                   processed_tables, tables_to_process, processed_count,
                   result, ghostVars>>
    /\ UNCHANGED auxVars

\* asyncio.sleep(0.1) between batches
BatchSleep ==
    /\ pc = "sleep"
    /\ i' = i + BATCH_SIZE
    /\ n' = 0
    /\ pc' = "batch"
    /\ UNCHANGED <<db, storeVars, cancel_flag, scan_id, total_tables,
                   processed_tables, tables_to_process, processed_count,
                   result, ghostVars>>
    /\ UNCHANGED auxVars


\* the completion mark without the test of the flag
FinishUnchecked ==
    /\ pc = "finish"
    /\ scans_collection' = mark_scan_completed(scans_collection, scan_id)
    /\ pc' = "log_done"
    /\ UNCHANGED <<db, tables_collection, logs_collection, cancel_flag,
                   frameVars, ghostVars>>
    /\ UNCHANGED auxVars

\* `if not self._cancel_flag: mark_scan_completed`, else return scan_id
Finish ==
    /\ pc = "finish"
    /\ IF ~cancel_flag
       THEN /\ scans_collection' = mark_scan_completed(scans_collection, scan_id)
            /\ pc' = "log_done"
            /\ UNCHANGED outcome
       ELSE /\ pc' = "idle"
            /\ outcome' = "returned"
            /\ UNCHANGED scans_collection
    /\ UNCHANGED <<db, tables_collection, logs_collection, cancel_flag,
                   frameVars, failed, visited, raised, nruns, resumed_id, started, timed_out, cancel_requested,
                   ndbchanges>>
    /\ UNCHANGED auxVars

\* log_event(scan_id, "scan_completed", ...) and return scan_id
LogDone ==
    /\ pc = "log_done"
    /\ logs_collection' = log_event(logs_collection, scan_id, "scan_completed")
    /\ pc' = "idle"
    /\ outcome' = "returned"
    /\ UNCHANGED <<db, scans_collection, tables_collection, cancel_flag,
                   frameVars, failed, visited, raised, nruns, resumed_id, started, timed_out, cancel_requested,
                   ndbchanges>>
    /\ UNCHANGED auxVars

\* DatabaseScannerEngine.cancel()
Cancel ==
    /\ ~cancel_flag
    /\ cancel_flag' = TRUE
    /\ cancel_requested' = TRUE
    /\ UNCHANGED <<db, storeVars, pc, frameVars, outcome, failed, visited,
                   raised, nruns, resumed_id, started, timed_out,
                   ndbchanges>>
    /\ UNCHANGED auxVars

\* another task calls start_scan on the same engine while the run this model
\* follows stands at an await, and its call raises: `self._cancel_flag =
\* False`, then the listing fails or the resume target is unknown
ConcurrentStartScanRaises(resume_scan_id, list_fails) ==
    /\ pc # "idle"
    /\ \/ list_fails
       \/ db = {}
       \/ resume_scan_id # NoScanId /\ ~HasScan(scans_collection, resume_scan_id)
    /\ cancel_flag' = FALSE
    /\ UNCHANGED <<db, storeVars, pc, frameVars, ghostVars>>
    /\ UNCHANGED auxVars

\* the process dies between two awaits; a new engine starts with no task
Crash ==
    /\ pc # "idle"
    /\ pc' = "idle"
    /\ outcome' = "crashed"
    /\ cancel_flag' = FALSE
    /\ cancel_requested' = FALSE
    /\ scan_id' = NoScanId
    /\ ResetFrame
    /\ resumed_id' = NoScanId
    /\ UNCHANGED <<db, storeVars, raised, nruns, started, timed_out, ndbchanges>>
    /\ UNCHANGED auxVars

\* a table is created in, or dropped from, the target database
DbChange(t) ==
    /\ pc = "idle"
    /\ ndbchanges < MaxDbChanges
    /\ ndbchanges' = ndbchanges + 1
    /\ db' = IF t \in db THEN db \ {t} ELSE db \cup {t}
    /\ UNCHANGED <<storeVars, cancel_flag, pc, frameVars, outcome, failed,
                   visited, raised, nruns, resumed_id, started, timed_out, cancel_requested>>
    /\ UNCHANGED auxVars

RunStep ==
    \/ LogStart
    \/ BatchHead
    \/ UnitHead
    \/ \E metadata \in {"full", "empty"} : AnalyzeTable(metadata)
    \/ AnalyzeRaises
    \/ SaveResult
    \/ PostProgress
    \/ UnitError
    \/ BatchSleep
    \/ Finish
    \/ LogDone

(* ------------ DatabaseScannerEngine._detect_table_issues --------------- *)
\* indexes of a table, columns of an index, foreign keys of a table
MaxIndexes == 2

MaxCols == 2

MaxFks == 1

\* a string is the sequence of its characters
Comma == ","

\* column names; MySQL lets a quoted identifier hold any character, so the
\* third is one column whose name has a comma in it
ColumnNames == {<<"a">>, <<"b">>, <<"a", Comma, "b">>}

\* index names in the order of ORDER BY INDEX_NAME
IndexNames == <<"PRIMARY", "idx_1", "idx_2", "idx_3">>

\* the column lists an index may have: no column twice
ColumnLists ==
    {cols \in UNION {[1..k -> ColumnNames] : k \in 1..MaxCols} :
        \A x, y \in DOMAIN cols : x # y => cols[x] # cols[y]}

\* what get_table_indexes returns: one entry per index name, each with the
\* columns in SEQ_IN_INDEX order; the list is empty after the table timeout
IndexLists ==
    UNION {{[k \in 1..m |-> [name |-> IndexNames[k + first - 1],
                             columns |-> colsOf[k]]] :
               colsOf \in [1..m -> ColumnLists], first \in 1..2} :
           m \in 0..MaxIndexes}

\* total_mb is ROUND(.., 2): sizes are kept in hundredths of a megabyte
Mb(x) == 100 * x

\* table_info rows of get_real_tables: sizes at and around both thresholds
TableInfos ==
    {[table_name |-> "orders", total_mb |-> size,
      row_count |-> IF size < Mb(2048) THEN 10000 ELSE 10001] :
        size \in {0, Mb(1024), Mb(1024) + 1, Mb(2048), Mb(10240),
                  Mb(10240) + 1, Mb(12000)}}

\* what get_table_partitions returns
PartitionLists == {<<>>, <<[partition_name |-> "p0"]>>}

\* what get_foreign_keys returns
ForeignKeyLists ==
    UNION {[1..k -> {[column_name |-> col, referenced_table |-> "customers"] :
                        col \in ColumnNames}] : k \in 0..MaxFks}

\* ','.join(cols)
RECURSIVE Join(_)
Join(cols) ==
    IF cols = <<>> THEN <<>>
    ELSE IF Len(cols) = 1 THEN cols[1]
    ELSE cols[1] \o <<Comma>> \o Join(Tail(cols))

\* s.startswith(prefix)
startswith(s, prefix) ==
    Len(prefix) <= Len(s) /\ SubSeq(s, 1, Len(prefix)) = prefix

\* the threshold test without the strictness: 1024 MB itself counts as large
IsLargeInclusive(size_mb) == size_mb >= Mb(1024)

\* size_mb > 1024
IsLarge(size_mb) == size_mb > Mb(1024)

\* "critical" if size_mb > 10240 else "high"
LargeSeverity(size_mb) == IF size_mb > Mb(10240) THEN "critical" ELSE "high"

\* the large-table check
LargeTableIssues(info, parts) ==
    IF IsLarge(info.total_mb) /\ parts = <<>>
    THEN <<[type |-> "large_table_no_partition",
            severity |-> LargeSeverity(info.total_mb),
            message |-> <<info.total_mb>>,
            recommendation |-> <<"partitioning">>]>>
    ELSE <<>>

\* the check for no index but the primary key
NoSecondaryIssues(info, idxs) ==
    LET notPk(idx) == idx.name # "PRIMARY"
        non_pk_indexes == SelectSeq(idxs, notPk)
    IN  IF info.row_count > 10000 /\ non_pk_indexes = <<>>
        THEN <<[type |-> "no_secondary_indexes",
                severity |-> "high",
                message |-> <<info.row_count>>,
                recommendation |-> <<"add indexes">>]>>
        ELSE <<>>

\* indexed_cols: every column of every index, at whatever position
IndexedCols(idxs) ==
    UNION {Range(idxs[k].columns) : k \in DOMAIN idxs}

\* the foreign-key check; the recommendation is the CREATE INDEX statement
\* built from the table name and the column name
FkIssues(info, idxs, fks) ==
    LET uncovered(fk) == fk.column_name \notin IndexedCols(idxs)
        issue(fk) ==
            [type |-> "fk_without_index",
             severity |-> "high",
             message |-> <<fk.column_name, fk.referenced_table>>,
             recommendation |-> <<"CREATE INDEX", info.table_name,
                                  fk.column_name>>]
        kept == SelectSeq(fks, uncovered)
    IN  [k \in 1..Len(kept) |-> issue(kept[k])]

\* index_prefixes: (name, joined columns) of every index that has columns
IndexPrefixes(idxs) ==
    LET hasCols(idx) == idx.columns # <<>>
        pair(idx) == [name |-> idx.name, cols |-> Join(idx.columns)]
        kept == SelectSeq(idxs, hasCols)
    IN  [k \in 1..Len(kept) |-> pair(kept[k])]

\* the redundancy check: the inner loop for one i, then the outer loop
RECURSIVE RedundantFrom(_, _, _)
RedundantFrom(prefixes, x, y) ==
    IF y > Len(prefixes) THEN <<>>
    ELSE (IF x # y /\ startswith(prefixes[y].cols,
                                 prefixes[x].cols \o <<Comma>>)
          THEN <<[type |-> "redundant_index",
                  severity |-> "medium",
                  message |-> <<prefixes[x].name, prefixes[x].cols,
                                prefixes[y].name>>,
                  recommendation |-> <<prefixes[x].name>>]>>
          ELSE <<>>)
         \o RedundantFrom(prefixes, x, y + 1)

RECURSIVE RedundantIssues(_, _)
RedundantIssues(prefixes, x) ==
    IF x > Len(prefixes) THEN <<>>
    ELSE RedundantFrom(prefixes, x, 1) \o RedundantIssues(prefixes, x + 1)

\* _detect_table_issues(table_info, indexes, partitions, foreign_keys)
detect_table_issues(info, idxs, parts, fks) ==
    LargeTableIssues(info, parts)
    \o NoSecondaryIssues(info, idxs)
    \o FkIssues(info, idxs, fks)
    \o RedundantIssues(IndexPrefixes(idxs), 1)

\* the call returns its list
DetectTableIssues ==
    /\ dpc = "called"
    /\ issues' = detect_table_issues(table_info, indexes, partitions,
                                     foreign_keys)
    /\ dpc' = "returned"
    /\ UNCHANGED <<table_info, indexes, partitions, foreign_keys>>
    /\ UNCHANGED <<scanVars, pcalls, retryVars, workVars, callerVars, pollVars>>

(* --------------------------- MySQLPoolManager -------------------------- *)
\* attempts a manager may be configured with
MaxAttempts == 5
\* how much longer than asked asyncio.sleep may take, in seconds
MaxJitter == 1

RETRYABLE_ERRORS == {2003, 2006, 2013, 2055}
\* connector errors outside the set: no args, access denied, unknown database
OtherCodes == {0, 1045, 1049}

\* self.pool = None
NoPool == 0

NoError == [kind |-> "none", code |-> 0, attempt |-> 0 - 1]

\* what the connector does in one attempt: rows, the wait_for timeout, an
\* aiomysql.Error or another exception, raised while the pool is being built
\* ("connect") or while the query runs ("query")
ConnectorOutcomes ==
    {[kind |-> "rows", code |-> 0, stage |-> "query", rows |-> r] : r \in {0, 1}}
    \cup {[kind |-> "timeout", code |-> 0, stage |-> "query", rows |-> 0]}
    \cup {[kind |-> "mysql", code |-> c, stage |-> st, rows |-> 0] :
             c \in RETRYABLE_ERRORS \cup OtherCodes, st \in {"connect", "query"}}
    \cup {[kind |-> "other", code |-> 0, stage |-> st, rows |-> 0] :
             st \in {"connect", "query"}}

RECURSIVE Pow2(_)
Pow2(e) == IF e = 0 THEN 1 ELSE 2 * Pow2(e - 1)


\* a linear backoff, min(attempt + 1, 10)
BackoffLinear(a) == Min(a + 1, 10)

\* min(2 ** attempt, 10)
Backoff(a) == Min(Pow2(a), 10)


\* every connector error is retried
ShouldRetryAny(error_code) == TRUE

\* error_code in self.RETRYABLE_ERRORS
ShouldRetry(error_code) == error_code \in RETRYABLE_ERRORS


\* range(self.retry_attempts + 1)
LoopDoneLate(a, attempts) == a > attempts

\* `for attempt in range(self.retry_attempts)` has run out
LoopDone(a, attempts) == a >= attempts

\* get_pool: self.pool is None or self.pool.closed
NeedsPool == pool = NoPool \/ pool \in closed_pools

\* the pool get_pool leaves in self.pool: a new one unless _create_pool raises
PoolAfterGet(o) == IF NeedsPool /\ o.stage # "connect" THEN npools + 1 ELSE pool

\* _handle_connection_error on self.pool = p: close it, self.pool = None
HandleConnectionError(p) ==
    /\ pool' = NoPool
    /\ closed_pools' = IF p # NoPool THEN closed_pools \cup {p} ELSE closed_pools

KeepPool(p) ==
    /\ pool' = p
    /\ UNCHANGED closed_pools

\* the next iteration of the loop, or `raise last_error or Exception(...)`
NextAttempt ==
    /\ attempt' = attempt + 1
    /\ IF LoopDone(attempt + 1, retry_attempts)
       THEN /\ rpc' = "done"
            /\ retry_result' = [status |-> "raised", rows |-> 0,
                                error |-> last_error']
       ELSE /\ rpc' = "try"
            /\ UNCHANGED retry_result

\* execute_with_retry is called
Call ==
    /\ rpc = "idle"
    /\ IF LoopDone(0, retry_attempts)
       THEN /\ rpc' = "done"
            /\ retry_result' =
                   [status |-> "raised", rows |-> 0,
                    error |-> [kind |-> "max_retries", code |-> 0,
                               attempt |-> 0 - 1]]
       ELSE /\ rpc' = "try"
            /\ UNCHANGED retry_result
    /\ UNCHANGED <<retry_attempts, pool, closed_pools, npools, attempt,
                   last_error, nattempts, last_outcome, only_retryable,
                   sleeps, waits>>
    /\ UNCHANGED <<scanVars, pcalls, workVars, callerVars, sideVars>>

\* one pass through the try block and its except clauses
Attempt(o) ==
    /\ rpc = "try"
    /\ o.stage = "connect" => NeedsPool
    /\ nattempts' = nattempts + 1
    /\ npools' = IF NeedsPool /\ o.stage # "connect" THEN npools + 1 ELSE npools
    /\ last_outcome' = [kind |-> o.kind, code |-> o.code, attempt |-> attempt,
                        rows |-> o.rows]
    /\ only_retryable' = (/\ only_retryable
                          /\ o.kind = "mysql"
                          /\ o.code \in RETRYABLE_ERRORS)
    /\ CASE o.kind = "rows" ->
              /\ KeepPool(PoolAfterGet(o))
              /\ rpc' = "done"
              /\ retry_result' = [status |-> "rows", rows |-> o.rows,
                                  error |-> NoError]
              /\ UNCHANGED <<attempt, last_error, sleeps, waits>>
         [] o.kind = "timeout" ->
              /\ last_error' = [kind |-> "timeout_exception", code |-> 0,
                                attempt |-> attempt]
              /\ HandleConnectionError(PoolAfterGet(o))
              /\ sleeps' = Append(sleeps, 0)
              /\ waits' = Append(waits, 0)
              /\ NextAttempt
         [] o.kind = "mysql" /\ ShouldRetry(o.code) ->
              /\ last_error' = [kind |-> "mysql", code |-> o.code,
                                attempt |-> attempt]
              /\ HandleConnectionError(PoolAfterGet(o))
              /\ rpc' = "sleep"
              /\ UNCHANGED <<attempt, retry_result, sleeps, waits>>
         [] o.kind = "mysql" /\ ~ShouldRetry(o.code) ->
              /\ last_error' = [kind |-> "mysql", code |-> o.code,
                                attempt |-> attempt]
              /\ KeepPool(PoolAfterGet(o))
              /\ rpc' = "done"
              /\ retry_result' = [status |-> "raised", rows |-> 0,
                                  error |-> last_error']
              /\ UNCHANGED <<attempt, sleeps, waits>>
         [] o.kind = "other" ->
              /\ last_error' = [kind |-> "other", code |-> 0,
                                attempt |-> attempt]
              /\ HandleConnectionError(PoolAfterGet(o))
              /\ sleeps' = Append(sleeps, 0)
              /\ waits' = Append(waits, 0)
              /\ NextAttempt
    /\ UNCHANGED retry_attempts
    /\ UNCHANGED <<scanVars, pcalls, workVars, callerVars, sideVars>>

\* await asyncio.sleep(min(2 ** attempt, 10)) returns, jitter seconds late
Sleep(jitter) ==
    /\ rpc = "sleep"
    /\ sleeps' = Append(sleeps, Backoff(attempt))
    /\ waits' = Append(waits, Backoff(attempt) + jitter)
    /\ UNCHANGED last_error
    /\ NextAttempt
    /\ UNCHANGED <<retry_attempts, pool, closed_pools, npools, nattempts,
                   last_outcome, only_retryable>>
    /\ UNCHANGED <<scanVars, pcalls, workVars, callerVars, sideVars>>

(* ------------------- MySQLPoolManager, several callers ------------------ *)
\* tasks calling execute_with_retry on the one manager
NumCallers == 3
\* retry_attempts of the shared manager
MaxTries == 2
\* pools aiomysql.create_pool can build in one behaviour
MaxPools == 3

Callers == 1..NumCallers
\* _lock is free
NoCaller == 0

\* the pools close() was never called on
LivePools == {p \in 1..npools : p \notin closing_pools \cup closed_pools}

\* the callers holding a connection of pool p, their query in flight
InFlight(p) == {c \in Callers : cpc[c] = "query" /\ cpool[c] = p}

\* where a caller stands once the iteration `attempt` of its loop is over
Continue(a) == IF LoopDone(a + 1, MaxTries) THEN "done" ELSE "get"

\* an except clause of execute_with_retry calls _handle_connection_error,
\* which runs up to its first await: `if self.pool: self.pool.close()`, then
\* wait_closed() of that pool is awaited; with no pool it returns at once
HandleError(c, err) ==
    /\ cerr' = [cerr EXCEPT ![c] = err]
    /\ IF pool # NoPool
       THEN /\ closing_pools' = closing_pools \cup {pool}
            /\ ctarget' = [ctarget EXCEPT ![c] = pool]
            /\ cpc' = [cpc EXCEPT ![c] = "wait_closed"]
            /\ UNCHANGED cattempt
       ELSE /\ UNCHANGED <<closing_pools, ctarget>>
            /\ IF err = "mysql"
               THEN /\ cpc' = [cpc EXCEPT ![c] = "sleep"]
                    /\ UNCHANGED cattempt
               ELSE /\ cpc' = [cpc EXCEPT ![c] = Continue(cattempt[c])]
                    /\ cattempt' = [cattempt EXCEPT ![c] = @ + 1]

\* get_pool returns self.pool and pool.acquire() is entered: a pool that is
\* closing refuses the connection (RuntimeError, caught as Exception)
UsePool(c) ==
    /\ cpool' = [cpool EXCEPT ![c] = pool]
    /\ IF pool \in closing_pools
       THEN HandleError(c, "other")
       ELSE /\ cpc' = [cpc EXCEPT ![c] = "query"]
            /\ UNCHANGED <<closing_pools, ctarget, cattempt, cerr>>

\* what a step of a caller leaves alone
PoolFrame ==
    UNCHANGED <<scanVars, pcalls, workVars, sideVars, retry_attempts, rpc,
                attempt, last_error, retry_result, nattempts, last_outcome,
                only_retryable, sleeps, waits>>

\* execute_with_retry is called
CallerCalls(c) ==
    /\ cpc[c] = "idle"
    /\ cpc' = [cpc EXCEPT ![c] = Continue(0 - 1)]
    /\ UNCHANGED <<pool, closed_pools, npools, closing_pools, lock_owner,
                   cpool, ctarget, cattempt, cerr>>
    /\ PoolFrame

\* get_pool: the first test of self.pool, then the pool or the lock
GetPool(c) ==
    /\ cpc[c] = "get"
    /\ IF ~NeedsPool
       THEN UsePool(c) /\ UNCHANGED lock_owner
       ELSE /\ IF lock_owner = NoCaller
               THEN /\ lock_owner' = c
                    /\ cpc' = [cpc EXCEPT ![c] = "creating"]
               ELSE /\ cpc' = [cpc EXCEPT ![c] = "lock_wait"]
                    /\ UNCHANGED lock_owner
            /\ UNCHANGED <<closing_pools, cpool, ctarget, cattempt, cerr>>
    /\ UNCHANGED <<pool, closed_pools, npools>>
    /\ PoolFrame

\* the lock is granted to a waiter: the second test of self.pool
LockGranted(c) ==
    /\ cpc[c] = "lock_wait"
    /\ lock_owner = NoCaller
    /\ IF NeedsPool
       THEN /\ lock_owner' = c
            /\ cpc' = [cpc EXCEPT ![c] = "creating"]
            /\ UNCHANGED <<closing_pools, cpool, ctarget, cattempt, cerr>>
       ELSE UsePool(c) /\ UNCHANGED lock_owner
    /\ UNCHANGED <<pool, closed_pools, npools>>
    /\ PoolFrame

\* _create_pool: aiomysql.create_pool answers with a pool, which becomes
\* self.pool, or raises a connect error (code 2003); the lock is released
CreatePool(c, connected) ==
    /\ cpc[c] = "creating"
    /\ connected => npools < MaxPools
    /\ lock_owner' = NoCaller
    /\ IF connected
       THEN /\ npools' = npools + 1
            /\ pool' = npools + 1
            /\ cpool' = [cpool EXCEPT ![c] = npools + 1]
            /\ cpc' = [cpc EXCEPT ![c] = "query"]
            /\ UNCHANGED <<closing_pools, ctarget, cattempt, cerr>>
       ELSE /\ HandleError(c, "mysql")
            /\ UNCHANGED <<pool, npools, cpool>>
    /\ UNCHANGED closed_pools
    /\ PoolFrame

\* the query of a caller ends and its connection goes back to the pool:
\* rows, the wait_for timeout, a retryable or another connector error
QueryEnds(c, kind) ==
    /\ cpc[c] = "query"
    /\ IF kind \in {"rows", "fatal"}
       THEN /\ cpc' = [cpc EXCEPT ![c] = "done"]
            /\ UNCHANGED <<closing_pools, ctarget, cattempt, cerr>>
       ELSE HandleError(c, kind)
    /\ UNCHANGED <<pool, closed_pools, npools, lock_owner, cpool>>
    /\ PoolFrame

\* wait_closed() returns once no connection of the pool is in use, and
\* _handle_connection_error goes on to `self.pool = None`
WaitClosed(c) ==
    /\ cpc[c] = "wait_closed"
    /\ InFlight(ctarget[c]) = {}
    /\ closed_pools' = closed_pools \cup {ctarget[c]}
    /\ pool' = NoPool
    /\ IF cerr[c] = "mysql"
       THEN /\ cpc' = [cpc EXCEPT ![c] = "sleep"]
            /\ UNCHANGED cattempt
       ELSE /\ cpc' = [cpc EXCEPT ![c] = Continue(cattempt[c])]
            /\ cattempt' = [cattempt EXCEPT ![c] = @ + 1]
    /\ UNCHANGED <<npools, closing_pools, lock_owner, cpool, ctarget, cerr>>
    /\ PoolFrame

\* asyncio.sleep(min(2 ** attempt, 10)) returns
BackoffOver(c) ==
    /\ cpc[c] = "sleep"
    /\ cpc' = [cpc EXCEPT ![c] = Continue(cattempt[c])]
    /\ cattempt' = [cattempt EXCEPT ![c] = @ + 1]
    /\ UNCHANGED <<pool, closed_pools, npools, closing_pools, lock_owner,
                   cpool, ctarget, cerr>>
    /\ PoolFrame

(* ---------------------- ScanPersistence, any caller --------------------- *)
\* ScanPersistence calls of one behaviour of SpecPersist
MaxCalls == 3

PersistTables == {t \in TableNames : t <= 2}

\* a call and the stats_delta it passed
CalledWith(op, sid, t, delta) ==
    /\ Len(pcalls) < MaxCalls
    /\ pcalls' = Append(pcalls, [op |-> op, scan_id |-> sid, table_name |-> t,
                                 stats_delta |-> delta])
    /\ UNCHANGED <<db, cancel_flag, pc, frameVars, ghostVars, retryVars,
                   workVars, callerVars, sideVars>>

Called(op, sid, t) == CalledWith(op, sid, t, NoDelta)

PCreateScan(sid, total) ==
    /\ ~HasScan(scans_collection, sid)
    /\ Called("create_scan", sid, NoTable)
    /\ scans_collection' = create_scan(scans_collection, sid, total)
    /\ UNCHANGED <<tables_collection, logs_collection>>

PUpdateScanProgress(sid, t, processed, with_delta) ==
    LET stats_delta ==
            IF with_delta THEN StatsDelta(TableScanResult(sid, t, "full"))
            ELSE NoDelta
    IN  /\ CalledWith("update_scan_progress", sid, t, stats_delta)
        /\ scans_collection' =
               update_scan_progress(scans_collection, sid, t, processed,
                                    NumTables, stats_delta)
        /\ UNCHANGED <<tables_collection, logs_collection>>

PSaveTableResult(sid, t, metadata) ==
    /\ Called("save_table_result", sid, t)
    /\ tables_collection' =
           save_table_result(tables_collection, TableScanResult(sid, t, metadata))
    /\ UNCHANGED <<scans_collection, logs_collection>>

PMarkScanCompleted(sid) ==
    /\ Called("mark_scan_completed", sid, NoTable)
    /\ scans_collection' = mark_scan_completed(scans_collection, sid)
    /\ UNCHANGED <<tables_collection, logs_collection>>

PMarkScanFailed(sid) ==
    /\ Called("mark_scan_failed", sid, NoTable)
    /\ scans_collection' = mark_scan_failed(scans_collection, sid, "error")
    /\ UNCHANGED <<tables_collection, logs_collection>>

PAddTableError(sid, t) ==
    /\ Called("add_table_error", sid, t)
    /\ scans_collection' = add_table_error(scans_collection, sid, t, "error")
    /\ UNCHANGED <<tables_collection, logs_collection>>

PLogEvent(sid) ==
    /\ Called("log_event", sid, NoTable)
    /\ logs_collection' = log_event(logs_collection, sid, "event")
    /\ UNCHANGED <<scans_collection, tables_collection>>

(* ------------------------- WorkloadPersistence ------------------------- *)
\* start_analysis calls of one behaviour
MaxWRuns == 2
\* WorkloadPersistence calls other clients make in one behaviour
MaxWCalls == 1

\* resume_id = None
NoAnalysisId == 0
\* the workload jobs a behaviour follows
AnalysisIds == {1}
\* status = None
NoStatus == "none"

HasAnalysis(ac, aid) == \E k \in DOMAIN ac : ac[k].analysis_id = aid

AnalysisIdx(ac, aid) ==
    CHOOSE k \in DOMAIN ac :
        /\ ac[k].analysis_id = aid
        /\ \A m \in DOMAIN ac : ac[m].analysis_id = aid => k <= m

get_analysis(ac, aid) ==
    IF HasAnalysis(ac, aid) THEN ac[AnalysisIdx(ac, aid)] ELSE None

create_analysis(ac, aid) ==
    Append(ac, [analysis_id |-> aid,
                status |-> "pending",
                progress_percentage |-> 0,
                current_phase |-> "initializing",
                phases_completed |-> <<>>,
                errors |-> <<>>,
                summary |-> {}])

update_progress(ac, aid, phase, progress, status) ==
    IF ~HasAnalysis(ac, aid) THEN ac
    ELSE [ac EXCEPT ![AnalysisIdx(ac, aid)] =
            [@ EXCEPT !.current_phase = phase,
                      !.progress_percentage = progress,
                      !.status = IF status # NoStatus THEN status ELSE @]]

mark_completed(ac, aid, phase_summary) ==
    IF ~HasAnalysis(ac, aid) THEN ac
    ELSE [ac EXCEPT ![AnalysisIdx(ac, aid)] =
            [@ EXCEPT !.status = "completed",
                      !.progress_percentage = 100,
                      !.current_phase = "completed",
                      !.summary = phase_summary]]

mark_failed(ac, aid, error) ==
    IF ~HasAnalysis(ac, aid) THEN ac
    ELSE [ac EXCEPT ![AnalysisIdx(ac, aid)] =
            [@ EXCEPT !.status = "failed",
                      !.errors = Append(@, [message |-> error])]]


\* no stored phase is read back
get_completed_phases_none(ac, aid) == <<>>

\* analysis.get("phases_completed", []) if analysis else []
get_completed_phases(ac, aid) ==
    IF HasAnalysis(ac, aid) THEN get_analysis(ac, aid).phases_completed
    ELSE <<>>


\* $set in place of $addToSet: the list becomes the one phase
set_phase_completed(ac, aid, phase) ==
    IF ~HasAnalysis(ac, aid) THEN ac
    ELSE [ac EXCEPT ![AnalysisIdx(ac, aid)] =
            [@ EXCEPT !.phases_completed = <<phase>>]]

\* update_one(..., {"$addToSet": {"phases_completed": phase}})
mark_phase_completed(ac, aid, phase) ==
    IF ~HasAnalysis(ac, aid) THEN ac
    ELSE [ac EXCEPT ![AnalysisIdx(ac, aid)] =
            [@ EXCEPT !.phases_completed =
                          IF phase \in Range(@) THEN @ ELSE Append(@, phase)]]

\* a key a row does not have (dict.get returns None)
NoName == "none"

\* insert_many of one document per query; nothing for an empty batch
save_queries_batch(qc, aid, rows, query_type) ==
    IF rows = <<>> THEN qc
    ELSE qc \o [k \in 1..Len(rows) |->
                   [analysis_id |-> aid,
                    query_type |-> query_type,
                    query_pattern |-> rows[k].query_pattern]]

\* stat.get('table_name') or stat.get('index_name') or stat.get('event_name')
Identifier(stat) ==
    IF stat.table_name # NoName THEN stat.table_name
    ELSE IF stat.index_name # NoName THEN stat.index_name
    ELSE stat.event_name

\* update_one({analysis_id, stat_type, identifier}, {"$set": stat},
\* upsert=True): the first matching document takes the stat's fields, or a
\* document is inserted
upsert_stat(sc, aid, stat_type, stat) ==
    LET doc == [analysis_id |-> aid, stat_type |-> stat_type,
                identifier |-> Identifier(stat),
                table_name |-> stat.table_name,
                index_name |-> stat.index_name,
                event_name |-> stat.event_name,
                read_count |-> stat.read_count]
        hits == {k \in DOMAIN sc :
                    /\ sc[k].analysis_id = aid
                    /\ sc[k].stat_type = stat_type
                    /\ sc[k].identifier = Identifier(stat)}
    IN  IF hits = {} THEN Append(sc, doc)
        ELSE [sc EXCEPT ![CHOOSE k \in hits : \A m \in hits : k <= m] = doc]

\* save_stats: one upsert per stat, in order
RECURSIVE save_stats(_, _, _, _)
save_stats(sc, aid, stat_type, rows) ==
    IF rows = <<>> THEN sc
    ELSE save_stats(upsert_stat(sc, aid, stat_type, Head(rows)), aid,
                    stat_type, Tail(rows))

(* ------------------------ WorkloadAnalyzerEngine ----------------------- *)
PHASES ==
    <<[id |-> "query_digest", desc |-> "Analyzing query patterns",
       error_desc |-> "Error in query_digest", progress |-> 20],
      [id |-> "slow_queries", desc |-> "Identifying slow queries",
       error_desc |-> "Error in slow_queries", progress |-> 35],
      [id |-> "table_io", desc |-> "Collecting table I/O stats",
       error_desc |-> "Error in table_io", progress |-> 50],
      [id |-> "index_usage", desc |-> "Analyzing index usage",
       error_desc |-> "Error in index_usage", progress |-> 65],
      [id |-> "wait_events", desc |-> "Analyzing wait events",
       error_desc |-> "Error in wait_events", progress |-> 80],
      [id |-> "recommendations", desc |-> "Generating recommendations",
       error_desc |-> "Error in recommendations", progress |-> 100]>>

PhaseIds == [k \in DOMAIN PHASES |-> PHASES[k].id]

\* the phases whose _execute_phase can raise: _generate_recommendations reads
\* the stored records outside any try; the other phases catch every Exception
RaisingPhases == {"recommendations"}

\* the phase the loop stands at
phase == PHASES[phase_idx]

FreshAnalysisId ==
    CHOOSE aid \in AnalysisIds :
        /\ ~HasAnalysis(analyses, aid)
        /\ \A other \in AnalysisIds :
              ~HasAnalysis(analyses, other) => aid <= other

ResetAnalysisFrame ==
    /\ completed_phases' = <<>>
    /\ summary' = {}
    /\ phase_idx' = 1
    /\ executed' = <<>>
    /\ resumed_from' = {}

\* start_analysis up to its loop: the job is found or created
StartAnalysis(resume_id) ==
    /\ wpc = "idle"
    /\ wruns < MaxWRuns
    /\ IF resume_id # NoAnalysisId
       THEN HasAnalysis(analyses, resume_id)
       ELSE \E aid \in AnalysisIds : ~HasAnalysis(analyses, aid)
    /\ wruns' = wruns + 1
    /\ w_cancel_flag' = FALSE
    /\ IF resume_id # NoAnalysisId
       THEN /\ analysis_id' = resume_id
            /\ completed_phases' = get_completed_phases(analyses, resume_id)
            /\ resumed_from' =
                   Range(get_analysis(analyses, resume_id).phases_completed)
            /\ UNCHANGED analyses
       ELSE /\ analysis_id' = FreshAnalysisId
            /\ analyses' = create_analysis(analyses, FreshAnalysisId)
            /\ completed_phases' = <<>>
            /\ resumed_from' = {}
    /\ summary' = {}
    /\ phase_idx' = 1
    /\ executed' = <<>>
    /\ w_outcome' = "running"
    /\ wpc' = "head"
    /\ UNCHANGED clientVars
    /\ UNCHANGED <<scanVars, pcalls, retryVars, callerVars, sideVars,
                   recordVars>>

\* raise ValueError(f"Analysis {resume_id} not found")
StartAnalysisRaises(resume_id) ==
    /\ wpc = "idle"
    /\ wruns < MaxWRuns
    /\ resume_id # NoAnalysisId
    /\ ~HasAnalysis(analyses, resume_id)
    /\ w_cancel_flag' = FALSE
    /\ analysis_id' = NoAnalysisId
    /\ ResetAnalysisFrame
    /\ w_outcome' = "raised"
    /\ UNCHANGED <<analyses, wpc, wruns, clientVars>>
    /\ UNCHANGED <<scanVars, pcalls, retryVars, callerVars, sideVars,
                   recordVars>>

\* head of `for phase_id, phase_desc, progress in self.PHASES`: break when
\* cancelled, continue over a completed phase, else the progress write
\* before the phase
PhaseHead ==
    /\ wpc = "head"
    /\ IF phase_idx > Len(PHASES) \/ w_cancel_flag
       THEN /\ wpc' = "finish"
            /\ UNCHANGED <<analyses, phase_idx>>
       ELSE IF phase.id \in Range(completed_phases)
       THEN /\ phase_idx' = phase_idx + 1
            /\ UNCHANGED <<analyses, wpc>>
       ELSE /\ analyses' = update_progress(analyses, analysis_id, phase.desc,
                                           phase.progress - 15, "analyzing")
            /\ wpc' = "exec"
            /\ UNCHANGED phase_idx
    /\ UNCHANGED <<w_cancel_flag, analysis_id, completed_phases, summary,
                   executed, resumed_from, w_outcome, wruns, clientVars>>
    /\ UNCHANGED <<scanVars, pcalls, retryVars, callerVars, sideVars,
                   recordVars>>

\* what the performance_schema query of a phase returns when it succeeds
Rows(phase_id) ==
    IF phase_id \in {"query_digest", "slow_queries"}
    THEN <<[query_pattern |-> "SELECT"]>>
    ELSE IF phase_id = "table_io"
    THEN <<[table_name |-> "orders", index_name |-> NoName,
            event_name |-> NoName, read_count |-> 1]>>
    ELSE IF phase_id = "index_usage"
    THEN <<[table_name |-> "orders", index_name |-> "idx_1",
            event_name |-> NoName, read_count |-> 0],
           [table_name |-> "orders", index_name |-> "idx_2",
            event_name |-> NoName, read_count |-> 0]>>
    ELSE IF phase_id = "wait_events"
    THEN <<[table_name |-> NoName, index_name |-> NoName,
            event_name |-> "io", read_count |-> 0]>>
    ELSE <<>>

\* [r for r in rows if r.get('read_count', 0) == 0
\*                   and r.get('index_name') != 'PRIMARY']
Unused(rows) ==
    LET unread(r) == r.read_count = 0 /\ r.index_name # "PRIMARY"
    IN  SelectSeq(rows, unread)

\* the query_type save_queries_batch is called with
QueryType(phase_id) == IF phase_id = "query_digest" THEN "digest" ELSE "slow"

\* the phases that go through save_queries_batch, and through save_stats
QueryPhases == {"query_digest", "slow_queries"}

StatPhases == {"table_io", "index_usage", "wait_events"}

\* the save of a phase: save_queries_batch or save_stats of the rows
PersistPhase(phase_id) ==
    /\ queries' =
           IF phase_id \in QueryPhases
           THEN save_queries_batch(queries, analysis_id, Rows(phase_id),
                                   QueryType(phase_id))
           ELSE queries
    /\ stats' =
           IF phase_id \in StatPhases
           THEN save_stats(stats, analysis_id, phase_id, Rows(phase_id))
           ELSE stats

\* a failed query ends the loop
ExecutePhaseStops(query_failed) ==
    /\ wpc = "exec"
    /\ query_failed => phase.id \notin RaisingPhases
    /\ IF query_failed THEN UNCHANGED recordVars ELSE PersistPhase(phase.id)
    /\ executed' = Append(executed, phase.id)
    /\ summary' = {e \in summary : e.id # phase.id}
                      \cup {[id |-> phase.id, error |-> query_failed]}
    /\ wpc' = IF query_failed THEN "finish" ELSE "mark"
    /\ UNCHANGED <<analyses, w_cancel_flag, analysis_id, completed_phases,
                   phase_idx, resumed_from, w_outcome, wruns, clientVars>>
    /\ UNCHANGED <<scanVars, pcalls, retryVars, callerVars, sideVars>>

\* _execute_phase returns the phase's result: the rows were saved, or the
\* query failed, which is caught inside the phase and reported in the
\* result's "error" entry
ExecutePhase(query_failed) ==
    /\ wpc = "exec"
    /\ query_failed => phase.id \notin RaisingPhases
    /\ IF query_failed THEN UNCHANGED recordVars ELSE PersistPhase(phase.id)
    /\ executed' = Append(executed, phase.id)
    /\ summary' = {e \in summary : e.id # phase.id}
                      \cup {[id |-> phase.id, error |-> query_failed]}
    /\ wpc' = "mark"
    /\ UNCHANGED <<analyses, w_cancel_flag, analysis_id, completed_phases,
                   phase_idx, resumed_from, w_outcome, wruns, clientVars>>
    /\ UNCHANGED <<scanVars, pcalls, retryVars, callerVars, sideVars>>

\* _execute_phase raises
ExecutePhaseRaises ==
    /\ wpc = "exec"
    /\ phase.id \in RaisingPhases
    /\ executed' = Append(executed, phase.id)
    /\ wpc' = "error"
    /\ UNCHANGED <<analyses, w_cancel_flag, analysis_id, completed_phases,
                   summary, phase_idx, resumed_from, w_outcome, wruns,
                   clientVars>>
    /\ UNCHANGED <<scanVars, pcalls, retryVars, callerVars, sideVars,
                   recordVars>>

\* the flag is looked at again before the completion mark
MarkPhaseCompletedUnlessCancelled ==
    /\ wpc = "mark"
    /\ IF w_cancel_flag
       THEN /\ wpc' = "finish"
            /\ UNCHANGED analyses
       ELSE /\ analyses' = mark_phase_completed(analyses, analysis_id, phase.id)
            /\ wpc' = "post"
    /\ UNCHANGED <<w_cancel_flag, analysis_id, completed_phases, summary,
                   phase_idx, executed, resumed_from, w_outcome, wruns,
                   clientVars>>
    /\ UNCHANGED <<scanVars, pcalls, retryVars, callerVars, sideVars,
                   recordVars>>

\* mark_phase_completed(analysis_id, phase_id)
MarkPhaseCompleted ==
    /\ wpc = "mark"
    /\ analyses' = mark_phase_completed(analyses, analysis_id, phase.id)
    /\ wpc' = "post"
    /\ UNCHANGED <<w_cancel_flag, analysis_id, completed_phases, summary,
                   phase_idx, executed, resumed_from, w_outcome, wruns,
                   clientVars>>
    /\ UNCHANGED <<scanVars, pcalls, retryVars, callerVars, sideVars,
                   recordVars>>

\* update_progress(analysis_id, phase_desc, progress) after the phase
PhaseProgress ==
    /\ wpc = "post"
    /\ analyses' = update_progress(analyses, analysis_id, phase.desc,
                                   phase.progress, NoStatus)
    /\ phase_idx' = phase_idx + 1
    /\ wpc' = "head"
    /\ UNCHANGED <<w_cancel_flag, analysis_id, completed_phases, summary,
                   executed, resumed_from, w_outcome, wruns, clientVars>>
    /\ UNCHANGED <<scanVars, pcalls, retryVars, callerVars, sideVars,
                   recordVars>>

\* except Exception: update_progress(analysis_id, f"Error in {phase_id}", ...)
PhaseError ==
    /\ wpc = "error"
    /\ analyses' = update_progress(analyses, analysis_id, phase.error_desc,
                                   phase.progress, NoStatus)
    /\ phase_idx' = phase_idx + 1
    /\ wpc' = "head"
    /\ UNCHANGED <<w_cancel_flag, analysis_id, completed_phases, summary,
                   executed, resumed_from, w_outcome, wruns, clientVars>>
    /\ UNCHANGED <<scanVars, pcalls, retryVars, callerVars, sideVars,
                   recordVars>>

\* `if not self._cancel_flag: mark_completed(analysis_id, summary)`, return
FinishAnalysis ==
    /\ wpc = "finish"
    /\ IF ~w_cancel_flag
       THEN /\ analyses' = mark_completed(analyses, analysis_id, summary)
            /\ w_outcome' = "completed"
       ELSE /\ w_outcome' = "cancelled"
            /\ UNCHANGED analyses
    /\ wpc' = "idle"
    /\ UNCHANGED <<w_cancel_flag, analysis_id, completed_phases, summary,
                   phase_idx, executed, resumed_from, wruns, clientVars>>
    /\ UNCHANGED <<scanVars, pcalls, retryVars, callerVars, sideVars,
                   recordVars>>

\* WorkloadAnalyzerEngine.cancel()
CancelAnalysis ==
    /\ ~w_cancel_flag
    /\ w_cancel_flag' = TRUE
    /\ UNCHANGED <<analyses, wpc, analysis_id, completed_phases, summary,
                   phase_idx, executed, resumed_from, w_outcome, wruns,
                   clientVars>>
    /\ UNCHANGED <<scanVars, pcalls, retryVars, callerVars, sideVars,
                   recordVars>>

\* the process dies between two awaits; a new engine starts with no task
CrashAnalysis ==
    /\ wpc # "idle"
    /\ wpc' = "idle"
    /\ w_outcome' = "crashed"
    /\ w_cancel_flag' = FALSE
    /\ analysis_id' = NoAnalysisId
    /\ ResetAnalysisFrame
    /\ UNCHANGED <<analyses, wruns, clientVars>>
    /\ UNCHANGED <<scanVars, pcalls, retryVars, callerVars, sideVars,
                   recordVars>>

\* WorkloadPersistence is shared through the store: another client calls one
\* of its writing methods for an analysis id
ClientCall(op, aid, id) ==
    /\ wcalls < MaxWCalls
    /\ wcalls' = wcalls + 1
    /\ last_wcall' =
           [op |-> op, analysis_id |-> aid, phase |-> id,
            present |-> id \in Range(get_completed_phases(analyses, aid))]
    /\ UNCHANGED <<w_cancel_flag, wpc, analysis_id, completed_phases, summary,
                   phase_idx, executed, resumed_from, w_outcome, wruns>>
    /\ UNCHANGED <<scanVars, pcalls, retryVars, callerVars, sideVars,
                   recordVars>>

ClientMarkPhaseCompleted(aid, id) ==
    /\ ClientCall("mark_phase_completed", aid, id)
    /\ analyses' = mark_phase_completed(analyses, aid, id)

ClientUpdateProgress(aid, status) ==
    /\ ClientCall("update_progress", aid, "none")
    /\ analyses' = update_progress(analyses, aid, PHASES[1].desc,
                                   PHASES[1].progress, status)

ClientMarkCompleted(aid) ==
    /\ ClientCall("mark_completed", aid, "none")
    /\ analyses' = mark_completed(analyses, aid, {})

ClientMarkFailed(aid) ==
    /\ ClientCall("mark_failed", aid, "none")
    /\ analyses' = mark_failed(analyses, aid, "error")

AnalysisStep ==
    \/ PhaseHead
    \/ \E query_failed \in BOOLEAN : ExecutePhase(query_failed)
    \/ ExecutePhaseRaises
    \/ MarkPhaseCompleted
    \/ PhaseProgress
    \/ PhaseError
    \/ FinishAnalysis

(* ------------------------------ get_progress ---------------------------- *)
\* get_progress calls of one behaviour
MaxPolls == 2

\* the ScanProgress built from a job document
ScanProgress(scan) ==
    [scan_id |-> scan.scan_id,
     status |-> scan.status,
     total_tables |-> scan.total_tables,
     processed_tables |-> scan.processed_tables,
     current_table |-> scan.current_table,
     progress_percentage |-> scan.progress_percentage,
     errors |-> scan.errors]

\* a pending progress made up for an id that has no job
get_progress_pending(sc, sid) ==
    IF HasScan(sc, sid) THEN ScanProgress(get_scan(sc, sid))
    ELSE ScanProgress(create_scan(<<>>, sid, 0)[1])

\* DatabaseScannerEngine.get_progress: None if get_scan finds no job
get_progress(sc, sid) ==
    IF get_scan(sc, sid) = None THEN None
    ELSE ScanProgress(get_scan(sc, sid))

\* WorkloadAnalyzerEngine.get_progress: what get_analysis returns
workload_get_progress(ac, aid) == get_analysis(ac, aid)

\* the analysis ids clients ask for: those of the jobs and one no job has
PollAnalysisIds == AnalysisIds \cup {Cardinality(AnalysisIds) + 1}

Polled(engine, id) ==
    /\ npolls < MaxPolls
    /\ npolls' = npolls + 1
    /\ polled' = [engine |-> engine, id |-> id]
    /\ UNCHANGED <<scanVars, pcalls, retryVars, workVars, callerVars,
                   issueVars>>

\* a client asks the scanner for the progress of a scan id
GetProgress(sid) ==
    /\ Polled("scanner", sid)
    /\ poll_result' = get_progress(scans_collection, sid)

\* a client asks the workload analyzer for the progress of an analysis id
GetWorkloadProgress(aid) ==
    /\ Polled("workload", aid)
    /\ poll_result' = workload_get_progress(analyses, aid)

(* ---------------------------- specifications ---------------------------- *)
\* an engine that has run nothing over an empty store
InitEngine ==
    /\ scans_collection = <<>>
    /\ tables_collection = <<>>
    /\ logs_collection = <<>>
    /\ cancel_flag = FALSE
    /\ pc = "idle"
    /\ scan_id = NoScanId
    /\ total_tables = 0
    /\ processed_tables = {}
    /\ tables_to_process = <<>>
    /\ processed_count = 0
    /\ i = 0
    /\ n = 0
    /\ result = NoResult
    /\ outcome = "none"
    /\ failed = {}
    /\ visited = <<>>
    /\ raised = {}
    /\ nruns = 0
    /\ resumed_id = NoScanId
    /\ started = {}
    /\ timed_out = {}
    /\ cancel_requested = FALSE
    /\ ndbchanges = 0

InitScan ==
    /\ db \in SUBSET TableNames
    /\ InitEngine

\* a manager before any call of execute_with_retry; an earlier use may have
\* left a pool
InitRetry ==
    /\ retry_attempts \in 0..MaxAttempts
    /\ pool \in {NoPool, 1}
    /\ closed_pools = {}
    /\ npools = pool
    /\ rpc = "idle"
    /\ attempt = 0
    /\ last_error = NoError
    /\ retry_result = [status |-> "pending", rows |-> 0, error |-> NoError]
    /\ nattempts = 0
    /\ last_outcome = [kind |-> "none", code |-> 0, attempt |-> 0 - 1,
                       rows |-> 0]
    /\ only_retryable = TRUE
    /\ sleeps = <<>>
    /\ waits = <<>>

\* the manager as MySQLPoolManager.__init__ leaves it, retry_attempts = 3
InitRetryIdle ==
    /\ InitRetry
    /\ retry_attempts = 3
    /\ pool = NoPool

\* no workload job yet, no start_analysis call made
InitWork ==
    /\ analyses = <<>>
    /\ w_cancel_flag = FALSE
    /\ wpc = "idle"
    /\ analysis_id = NoAnalysisId
    /\ completed_phases = <<>>
    /\ summary = {}
    /\ phase_idx = 1
    /\ executed = <<>>
    /\ resumed_from = {}
    /\ w_outcome = "none"
    /\ wruns = 0
    /\ wcalls = 0
    /\ last_wcall = [op |-> "none", analysis_id |-> NoAnalysisId,
                     phase |-> "none", present |-> FALSE]
    /\ queries = <<>>
    /\ stats = <<>>

\* no caller has called yet, the lock is free
InitCallers ==
    /\ closing_pools = {}
    /\ lock_owner = NoCaller
    /\ cpc = [c \in Callers |-> "idle"]
    /\ cpool = [c \in Callers |-> NoPool]
    /\ ctarget = [c \in Callers |-> NoPool]
    /\ cattempt = [c \in Callers |-> 0]
    /\ cerr = [c \in Callers |-> "none"]

\* no get_progress call made
InitPolls ==
    /\ npolls = 0
    /\ polled = [engine |-> "none", id |-> 0]
    /\ poll_result = None

\* no _detect_table_issues call under way
InitSide ==
    /\ table_info = [table_name |-> "orders", total_mb |-> 0, row_count |-> 0]
    /\ indexes = <<>>
    /\ partitions = <<>>
    /\ foreign_keys = <<>>
    /\ issues = <<>>
    /\ dpc = "none"
    /\ InitPolls

vars == <<scanVars, auxVars>>

Init ==
    InitScan /\ pcalls = <<>> /\ InitRetryIdle /\ InitWork /\ InitCallers
    /\ InitSide

Next ==
    \/ \E resume_scan_id \in {NoScanId} \cup ScanIds : StartScan(resume_scan_id)
    \/ \E resume_scan_id \in {NoScanId} \cup ScanIds, list_fails \in BOOLEAN :
          StartScanRaises(resume_scan_id, list_fails)
    \/ RunStep
    \/ Cancel
    \/ Crash
    \/ \E t \in TableNames : DbChange(t)

Spec == Init /\ [][Next]_vars

InitPersist ==
    InitScan /\ db = TableNames /\ pcalls = <<>> /\ InitRetryIdle /\ InitWork
    /\ InitCallers /\ InitSide

NextPersist ==
    \/ \E sid \in PersistIds : PCreateScan(sid, NumTables)
    \/ \E sid \in PersistIds, t \in PersistTables, processed \in 0..2,
          with_delta \in BOOLEAN :
          PUpdateScanProgress(sid, t, processed, with_delta)
    \/ \E sid \in PersistIds, t \in PersistTables, metadata \in {"full", "empty"} :
          PSaveTableResult(sid, t, metadata)
    \/ \E sid \in PersistIds : PMarkScanCompleted(sid)
    \/ \E sid \in PersistIds : PMarkScanFailed(sid)
    \/ \E sid \in PersistIds, t \in PersistTables : PAddTableError(sid, t)
    \/ \E sid \in PersistIds : PLogEvent(sid)

SpecPersist == InitPersist /\ [][NextPersist]_vars

InitRetrySpec ==
    InitScan /\ db = TableNames /\ pcalls = <<>> /\ InitRetry /\ InitWork
    /\ InitCallers /\ InitSide

NextRetry ==
    \/ Call
    \/ \E o \in ConnectorOutcomes : Attempt(o)
    \/ \E jitter \in 0..MaxJitter : Sleep(jitter)

SpecRetry == InitRetrySpec /\ [][NextRetry]_vars

\* one WorkloadAnalyzerEngine driving the start_analysis runs of one job,
\* with cancel() and process crashes
InitWorkload == InitPersist

NextWorkload ==
    \/ \E resume_id \in {NoAnalysisId} \cup AnalysisIds : StartAnalysis(resume_id)
    \/ \E resume_id \in AnalysisIds : StartAnalysisRaises(resume_id)
    \/ AnalysisStep
    \/ CancelAnalysis
    \/ CrashAnalysis

SpecWorkload == InitWorkload /\ [][NextWorkload]_vars

\* the runs of SpecWorkload over a performance_schema whose queries answer,
\* with other clients of the store writing to the job between the run's steps
ClientPhases == {PHASES[1].id, PHASES[2].id}

NextWorkloadStore ==
    \/ \E resume_id \in {NoAnalysisId} \cup AnalysisIds : StartAnalysis(resume_id)
    \/ \E resume_id \in AnalysisIds : StartAnalysisRaises(resume_id)
    \/ PhaseHead
    \/ ExecutePhase(FALSE)
    \/ ExecutePhaseRaises
    \/ MarkPhaseCompleted
    \/ PhaseProgress
    \/ PhaseError
    \/ FinishAnalysis
    \/ CancelAnalysis
    \/ CrashAnalysis
    \/ \E aid \in AnalysisIds, id \in ClientPhases :
          ClientMarkPhaseCompleted(aid, id)
    \/ \E aid \in AnalysisIds, status \in {NoStatus, "collecting"} :
          ClientUpdateProgress(aid, status)
    \/ \E aid \in AnalysisIds : ClientMarkCompleted(aid)
    \/ \E aid \in AnalysisIds : ClientMarkFailed(aid)

SpecWorkloadStore == InitWorkload /\ [][NextWorkloadStore]_vars

\* the tasks of concurrent jobs, each in one execute_with_retry call on the
\* shared manager; a task may be resumed any time after what it awaits
InitPool == InitPersist

NextPool ==
    \/ \E c \in Callers : CallerCalls(c)
    \/ \E c \in Callers : GetPool(c)
    \/ \E c \in Callers : LockGranted(c)
    \/ \E c \in Callers, connected \in BOOLEAN :
          CreatePool(c, connected)
    \/ \E c \in Callers, kind \in {"rows", "timeout", "mysql", "fatal"} :
          QueryEnds(c, kind)
    \/ \E c \in Callers : WaitClosed(c)
    \/ \E c \in Callers : BackoffOver(c)

SpecPool == InitPool /\ [][NextPool]_vars

\* The runs of one job over a listing that stays as it is (start_scan reads
\* the catalog once, before its loop).
\* An asyncio task is scheduled again after every await while the process
\* lives: the steps of a started run are weakly fair; calls, cancel() and
\* crashes are not.
NextLive ==
    \/ \E resume_scan_id \in {NoScanId} \cup ScanIds : StartScan(resume_scan_id)
    \/ \E resume_scan_id \in {NoScanId} \cup ScanIds, list_fails \in BOOLEAN :
          StartScanRaises(resume_scan_id, list_fails)
    \/ RunStep
    \/ Cancel
    \/ Crash

SpecLive == Init /\ [][NextLive]_vars /\ WF_vars(RunStep)

\* _detect_table_issues called once with each list of arguments the
\* introspector can hand it
InitIssues ==
    /\ InitScan /\ db = TableNames /\ pcalls = <<>> /\ InitRetryIdle
    /\ InitWork /\ InitCallers
    /\ table_info \in TableInfos
    /\ indexes \in IndexLists
    /\ partitions \in PartitionLists
    /\ foreign_keys \in ForeignKeyLists
    /\ issues = <<>>
    /\ dpc = "called"
    /\ InitPolls

NextIssues == DetectTableIssues

SpecIssues == InitIssues /\ [][NextIssues]_vars

\* clients polling get_progress of both engines while scan jobs are created
\* and marked and a workload analysis is started
InitPoll == InitPersist

NextPoll ==
    \/ \E sid \in PersistIds : PCreateScan(sid, NumTables)
    \/ \E sid \in PersistIds : PMarkScanFailed(sid)
    \/ StartAnalysis(NoAnalysisId)
    \/ PhaseHead
    \/ CrashAnalysis
    \/ \E sid \in PersistIds : GetProgress(sid)
    \/ \E aid \in PollAnalysisIds : GetWorkloadProgress(aid)

SpecPoll == InitPoll /\ [][NextPoll]_vars

\* the runs of Spec over an unchanging catalog with other tasks calling
\* start_scan on the same engine in between
OtherScanIds == ScanIds \cup {Cardinality(ScanIds) + 1}

NextShared ==
    \/ NextLive
    \/ \E resume_scan_id \in {NoScanId} \cup OtherScanIds,
          list_fails \in BOOLEAN :
          ConcurrentStartScanRaises(resume_scan_id, list_fails)

SpecShared == Init /\ [][NextShared]_vars

\* the runs of one job over a catalog of more tables than one batch holds,
\* whose metadata queries all answer in the end
MaxOverflow == 2

BatchTables == 1..(BATCH_SIZE + MaxOverflow)

InitBatch ==
    InitEngine /\ db = BatchTables /\ pcalls = <<>> /\ InitRetryIdle /\ InitWork
    /\ InitCallers /\ InitSide

NextBatch ==
    \/ \E resume_scan_id \in {NoScanId} \cup ScanIds : StartScan(resume_scan_id)
    \/ LogStart
    \/ BatchHead
    \/ UnitHead
    \/ \E metadata \in {"full", "empty"} : AnalyzeTable(metadata)
    \/ SaveResult
    \/ PostProgress
    \/ BatchSleep
    \/ Finish
    \/ LogDone
    \/ Cancel
    \/ Crash

SpecBatch == InitBatch /\ [][NextBatch]_vars

(* ------------------------------- claims -------------------------------- *)
Job == get_scan(scans_collection, scan_id)

OneResultPerKey ==
    \A k, m \in DOMAIN tables_collection :
        (/\ tables_collection[k].scan_id = tables_collection[m].scan_id
         /\ tables_collection[k].table_name = tables_collection[m].table_name)
        => k = m

\* the same (scan_id, table_name) was saved twice
ReplayedSave ==
    \E a, b \in DOMAIN pcalls :
        /\ a < b
        /\ pcalls[a].op = "save_table_result"
        /\ pcalls[a] = pcalls[b]
        /\ HasResult(tables_collection, pcalls[a].scan_id, pcalls[a].table_name)

\* C3: the persisted processed_tables of a scan job never decreases.
ProcessedNeverDecreases ==
    [][\A sid \in ScanIds :
          (HasScan(scans_collection, sid) /\ HasScan(scans_collection', sid))
          => get_scan(scans_collection', sid).processed_tables
                >= get_scan(scans_collection, sid).processed_tables]_vars

\* C4: a job with total_tables > 0 has progress_percentage equal to
\* round(processed_tables / total_tables * 100, 2) of its own counters.
PercentageMatchesCounters ==
    \A k \in DOMAIN scans_collection :
        scans_collection[k].total_tables > 0
        => scans_collection[k].progress_percentage =
               Percentage(scans_collection[k].processed_tables,
                          scans_collection[k].total_tables)

\* C5: a job's persisted processed_tables never exceeds its total_tables.
ProcessedAtMostTotal ==
    \A k \in DOMAIN scans_collection :
        scans_collection[k].processed_tables <= scans_collection[k].total_tables

\* C6: a raising analysis does not abort the scan: the error write appends an
\* entry naming the table and leaves the status RUNNING, and unless the run is
\* cancelled or its process dies it takes every pending unit to its end and
\* marks the job COMPLETED.
UnitFailureIsolated ==
    /\ [][(pc = "error" /\ pc' = "unit")
            => /\ Job.status = "running"
               /\ Job' = [Job EXCEPT !.errors =
                             Append(@, [table |-> table_name,
                                        message |-> "error"])]]_vars
    /\ (pc = "error")
          ~> \/ cancel_flag
             \/ outcome = "crashed"
             \/ /\ pc = "idle" /\ outcome = "returned"
                /\ visited = tables_to_process
                /\ Job.status = "completed"

\* an uncancelled run completed although a unit before its last one raised
CompletedDespiteFailure ==
    /\ pc = "idle" /\ outcome = "returned" /\ ~cancel_flag
    /\ failed # {}
    /\ tables_to_process[Len(tables_to_process)] \notin failed
    /\ visited = tables_to_process
    /\ Job.status = "completed"
    /\ \E e \in Range(Job.errors) : e.table \in failed

\* C7: when an uncancelled scan with failed tables is marked COMPLETED, the
\* persisted processed_tables equals total_tables.
CompletedCountsEveryTable ==
    (pc = "log_done" /\ failed # {})
        => Job.processed_tables = Job.total_tables

\* the error object the connector raised in the latest attempt
LastRaised ==
    [kind |-> last_outcome.kind, code |-> last_outcome.code,
     attempt |-> last_outcome.attempt]

\* C8: execute_with_retry never makes more than retry_attempts attempts; when
\* every attempt raised a retryable code (retry_attempts >= 1) it ends by
\* raising the error of the last attempt, after exactly retry_attempts
\* attempts; an attempt that succeeds ends the call with its rows.
RetryBounded ==
    /\ nattempts <= retry_attempts
    /\ (rpc = "done" /\ only_retryable /\ retry_attempts >= 1)
          => /\ nattempts = retry_attempts
             /\ last_outcome.attempt = retry_attempts - 1
             /\ retry_result = [status |-> "raised", rows |-> 0,
                                error |-> LastRaised]
    /\ last_outcome.kind = "rows"
          => /\ rpc = "done"
             /\ retry_result = [status |-> "rows", rows |-> last_outcome.rows,
                                error |-> NoError]

\* three attempts, each failed with a retryable code, and the call has raised
RetriesExhausted ==
    /\ rpc = "done" /\ only_retryable
    /\ retry_attempts = 3 /\ nattempts = 3
    /\ retry_result.status = "raised"

\* C9 as claimed: with retry_attempts = 3 and only retryable failures the
\* second attempt waits at least 2 s and the third at least 4 s, each sleep
\* being at most 10 s.
BackoffTwoThenFour ==
    (retry_attempts = 3 /\ only_retryable)
        => /\ Len(waits) >= 1 => (waits[1] >= 2 /\ sleeps[1] <= 10)
           /\ Len(waits) >= 2 => (waits[2] >= 4 /\ sleeps[2] <= 10)

\* C9 amended: after the k-th failure with a retryable code (k = 1, 2, ...)
\* the call waits at least min(2^(k-1), 10) seconds: 1 s before the second
\* attempt, 2 s before the third; the delay asked for is never above 10 s.
BackoffOneThenTwo ==
    only_retryable
        => \A k \in DOMAIN waits :
              /\ sleeps[k] = Min(Pow2(k - 1), 10)
              /\ sleeps[k] <= 10
              /\ waits[k] >= sleeps[k]

\* three retryable failures with retry_attempts = 3: the waits are on record
ThreeBackoffs ==
    /\ retry_attempts = 3 /\ only_retryable
    /\ Len(waits) = 3
    /\ waits[1] >= 1 /\ waits[2] >= 2

\* C10: an attempt that raises a connector error with a code outside the
\* retryable set ends the call with that error: no further attempt, no
\* backoff wait, and the pool is neither closed nor dropped.
NonRetryableRaisedAtOnce ==
    [][(/\ nattempts' = nattempts + 1
        /\ last_outcome'.kind = "mysql"
        /\ last_outcome'.code \notin RETRYABLE_ERRORS)
       => /\ rpc' = "done"
          /\ retry_result' = [status |-> "raised", rows |-> 0,
                              error |-> [kind |-> "mysql",
                                         code |-> last_outcome'.code,
                                         attempt |-> attempt]]
          /\ attempt' = attempt
          /\ sleeps' = sleeps /\ waits' = waits
          /\ closed_pools' = closed_pools
          /\ pool # NoPool => pool' = pool
          /\ pool' \notin closed_pools']_vars

\* a non-retryable error ended the call on a later attempt, the pool still open
NonRetryableAfterRetry ==
    /\ rpc = "done"
    /\ last_outcome.kind = "mysql" /\ last_outcome.code \notin RETRYABLE_ERRORS
    /\ nattempts >= 2
    /\ pool # NoPool /\ pool \notin closed_pools
    /\ retry_result.status = "raised"

\* the phases a run resumed from the completed set S has to execute, in the
\* PHASES order
Remaining(S) ==
    LET todo(id) == id \notin S IN SelectSeq(PhaseIds, todo)

IsPrefix(s, t) == Len(s) <= Len(t) /\ s = SubSeq(t, 1, Len(s))

\* C11: a start_analysis run that began with the set S stored in the job's
\* phases_completed executes no phase of S, executes the phases outside S in
\* the PHASES order, and has executed every one of them when it marks the
\* job completed.
PhaseSkipOnResume ==
    /\ IsPrefix(executed, Remaining(resumed_from))
    /\ w_outcome = "completed" => executed = Remaining(resumed_from)

\* a run resumed after query_digest and slow_queries ran the other four
ResumedAfterTwoPhases ==
    /\ wpc = "idle" /\ w_outcome = "completed"
    /\ resumed_from = {"query_digest", "slow_queries"}
    /\ executed = <<"table_io", "index_usage", "wait_events", "recommendations">>

\* C12: phases_completed of a workload job only grows: no step of a run, no
\* cancel, no resume and no WorkloadPersistence call removes a phase id from
\* it (or the job from the store), and mark_phase_completed of an id already
\* present leaves the stored job as it is.
PhasesOnlyGrow ==
    [][/\ \A aid \in AnalysisIds :
             HasAnalysis(analyses, aid)
             => /\ HasAnalysis(analyses', aid)
                /\ Range(get_analysis(analyses, aid).phases_completed)
                      \subseteq
                   Range(get_analysis(analyses', aid).phases_completed)
       /\ (/\ wcalls' = wcalls + 1
           /\ last_wcall'.op = "mark_phase_completed"
           /\ last_wcall'.present)
          => analyses' = analyses]_vars

\* a phase the run had completed was marked once more, after a cancelled run
\* and a resume: it is stored once, with the phases completed since
PhaseMarkedAgain ==
    /\ last_wcall.op = "mark_phase_completed" /\ last_wcall.present
    /\ wruns = 2 /\ resumed_from # {}
    /\ Len(get_analysis(analyses, last_wcall.analysis_id).phases_completed)
          = Cardinality(Range(get_analysis(analyses,
                                  last_wcall.analysis_id).phases_completed))
    /\ Cardinality(Range(get_analysis(analyses,
                             last_wcall.analysis_id).phases_completed)) >= 2

\* the steps of a unit that has passed the flag test at the head of the loop
InUnit == pc \in {"analyze", "save", "post", "error"}

\* C13: once cancel() was called during a start_scan run, the run (while its
\* process lives) takes the unit it is in through its remaining steps to the
\* unit's end, starts no other unit (no progress write before a unit, no
\* analysis, no result write) and does not mark the job COMPLETED.
CancelStopsAfterUnit ==
    [][(cancel_flag /\ pc # "idle" /\ outcome' # "crashed")
       => /\ pc' = "analyze" => pc = "analyze"
          /\ pc = "analyze" => pc' \in {"analyze", "save", "error"}
          /\ pc = "save"
                => \/ pc' = "save"
                   \/ /\ pc' = "post"
                      /\ HasResult(tables_collection', scan_id, table_name)
          /\ pc \in {"post", "error"}
                => \/ pc' = pc
                   \/ pc' = "unit" /\ visited' = Append(visited, table_name)
          /\ ~InUnit => UNCHANGED <<scans_collection, tables_collection>>
          /\ Job'.status = "completed" => Job.status = "completed"]_vars

\* cancel() came while the first of two pending units was under way: the
\* unit is at its last step, the second has not been started
CancelledMidUnit ==
    /\ cancel_flag /\ pc = "post"
    /\ visited = <<>> /\ Len(tables_to_process) = 2
    /\ HasResult(tables_collection, scan_id, table_name)
    /\ ~HasResult(tables_collection, scan_id, tables_to_process[2])

\* ScanStatus values a job ends in
TerminalStatuses == {"completed", "failed", "cancelled"}

\* C14: the persisted status of a scan job changes only along
\* PENDING -> RUNNING -> {COMPLETED, FAILED, CANCELLED}: no write moves a job
\* out of COMPLETED, FAILED or CANCELLED, and none moves it back to PENDING.
StatusFollowsLifecycle ==
    [][\A sid \in ScanIds :
          (HasScan(scans_collection, sid) /\ HasScan(scans_collection', sid))
          => LET before == get_scan(scans_collection, sid).status
                 after == get_scan(scans_collection', sid).status
             IN  \/ after = before
                 \/ before = "pending" /\ after = "running"
                 \/ before = "running" /\ after \in TerminalStatuses]_vars

\* C15: no scan job ever has the status PAUSED, whatever ScanPersistence
\* methods are called and in whatever order.
NeverPaused ==
    \A k \in DOMAIN scans_collection : scans_collection[k].status # "paused"

\* a job every status-writing method was called on: created, progressed,
\* then marked failed
EveryStatusWritten ==
    /\ Len(pcalls) = 3
    /\ pcalls[1].op = "create_scan"
    /\ pcalls[2].op \in {"update_scan_progress", "mark_scan_completed"}
    /\ pcalls[3].op = "mark_scan_failed"
    /\ pcalls[2].scan_id = pcalls[1].scan_id
    /\ pcalls[3].scan_id = pcalls[1].scan_id
    /\ get_scan(scans_collection, pcalls[1].scan_id).status = "failed"

\* a step that is a start_scan call: taken with no run under way, and
\* neither cancel() nor a change of the catalog
StartScanCalled ==
    /\ pc = "idle"
    /\ db' = db
    /\ cancel_flag' = FALSE
    /\ <<pc, outcome, nruns, resumed_id, storeVars>>'
          # <<pc, outcome, nruns, resumed_id, storeVars>>

\* C16: start_scan called when the database lists no table, or with a
\* resume_scan_id no job exists for, raises with nothing processed: no
\* progress write, no analysis, no table result, no log entry, and no job
\* record created.
StartScanFailsEarly ==
    [][(/\ StartScanCalled
        /\ \/ db = {}
           \/ /\ resumed_id' # NoScanId
              /\ ~HasScan(scans_collection, resumed_id'))
       => /\ outcome' = "raised"
          /\ pc' = "idle"
          /\ UNCHANGED storeVars
          /\ visited' = <<>> /\ result' = NoResult]_vars

\* a resume of an unknown job has raised, the database holding tables: the
\* stores are as empty as before
ResumeTargetNotFound ==
    /\ pc = "idle" /\ outcome = "raised"
    /\ db # {}
    /\ resumed_id # NoScanId /\ ~HasScan(scans_collection, resumed_id)
    /\ scans_collection = <<>> /\ tables_collection = <<>>
    /\ logs_collection = <<>>

\* a start_scan call that ends in a job-level fatal error
JobLevelFatal ==
    /\ StartScanCalled
    /\ outcome' = "raised"
    /\ \/ db = {}
       \/ resumed_id' # NoScanId /\ ~HasScan(scans_collection, resumed_id')

\* C17: when start_scan aborts with a job-level fatal error (no table listed,
\* or the resume target not found), a job, the named one when the call named
\* one, is left FAILED with the error in its error log.
FatalAbortMarksFailed ==
    [][JobLevelFatal
       => \E k \in DOMAIN scans_collection' :
             /\ scans_collection'[k].status = "failed"
             /\ scans_collection'[k].errors # <<>>
             /\ resumed_id' # NoScanId
                   => scans_collection'[k].scan_id = resumed_id']_vars

\* C18: at most one live pool exists for the manager at any time, whatever
\* the interleaving of the callers' get_pool calls and invalidations.
AtMostOneLivePool == Cardinality(LivePools) <= 1

\* C19: get_pool never hands a caller a pool on which teardown has begun:
\* the pool a caller obtains is neither closing nor closed.
GetPoolReturnsUsablePool ==
    [][\A c \in Callers :
          (cpc[c] \in {"get", "lock_wait", "creating"} /\ cpool'[c] # cpool[c])
          => cpool'[c] \in 1..npools' /\ cpool'[c] \notin closing_pools]_vars

\* C20: no pool is closed while a caller other than the closing one holds a
\* connection of it with a query in flight.
NoTeardownUnderQuery ==
    [][\A p \in closing_pools' \ closing_pools :
          \A c \in Callers :
             ~(/\ cpc[c] = "query" /\ cpc'[c] = "query"
               /\ cpool[c] = p)]_vars

\* the first column of every index
LeadingCols(idxs) == {idxs[k].columns[1] : k \in DOMAIN idxs}

\* the returned issues of one type, in order
IssuesOfType(ty) ==
    LET isTy(x) == x.type = ty IN SelectSeq(issues, isTy)

\* C21: _detect_table_issues returns an fk_without_index issue of severity
\* high, whose recommendation is the CREATE INDEX statement over the table
\* and the column, for a foreign-key column exactly when the column is the
\* first column of no index; a column that is only at a later position of a
\* composite index is flagged.
FkFlaggedUnlessLeading ==
    dpc = "returned"
    => \A k \in DOMAIN foreign_keys :
          (\E j \in DOMAIN issues :
              /\ issues[j].type = "fk_without_index"
              /\ issues[j].severity = "high"
              /\ issues[j].recommendation =
                     <<"CREATE INDEX", table_info.table_name,
                       foreign_keys[k].column_name>>)
          <=> foreign_keys[k].column_name \notin LeadingCols(indexes)

\* C22: _detect_table_issues returns exactly one large_table_no_partition
\* issue when the size is over 1024 MB and there is no partition, and none
\* otherwise (none at 1024 MB, none with a partition); the issue is critical
\* over 10240 MB and high up to and at 10240 MB.
LargeTableAtThresholds ==
    dpc = "returned"
    => LET large == IssuesOfType("large_table_no_partition")
       IN  /\ Len(large) =
                 (IF table_info.total_mb > Mb(1024) /\ partitions = <<>>
                  THEN 1 ELSE 0)
           /\ \A j \in DOMAIN large :
                 large[j].severity =
                     (IF table_info.total_mb > Mb(10240)
                      THEN "critical" ELSE "high")
           /\ table_info.total_mb = Mb(1024) => large = <<>>
           /\ (table_info.total_mb = Mb(10240) /\ partitions = <<>>)
              => large # <<>> /\ large[1].severity = "high"

\* a table of exactly 10240 MB without partitions got its one issue, high
LargeAtUpperThreshold ==
    /\ dpc = "returned"
    /\ table_info.total_mb = Mb(10240)
    /\ partitions = <<>>
    /\ Len(IssuesOfType("large_table_no_partition")) = 1
    /\ IssuesOfType("large_table_no_partition")[1].severity = "high"

\* s is a strict prefix of t, element by element
StrictPrefix(s, t) == Len(s) < Len(t) /\ s = SubSeq(t, 1, Len(s))

\* C23: _detect_table_issues returns one redundant_index issue of severity
\* medium, naming A as prefix of B, for each ordered pair of distinct indexes
\* (A, B) where the column list of A is a strict prefix of that of B, and
\* none for any other pair.
RedundantIffStrictPrefix ==
    dpc = "returned"
    => \A x, y \in DOMAIN indexes :
          Cardinality({j \in DOMAIN issues :
                          /\ issues[j].type = "redundant_index"
                          /\ issues[j].severity = "medium"
                          /\ issues[j].message[1] = indexes[x].name
                          /\ issues[j].message[3] = indexes[y].name})
          = (IF x # y /\ StrictPrefix(indexes[x].columns, indexes[y].columns)
             THEN 1 ELSE 0)

\* the stored query records of a job and query type, the stored stat records
\* of a job and stat type
QueryRecords(aid, query_type) ==
    LET match(d) == d.analysis_id = aid /\ d.query_type = query_type
    IN  SelectSeq(queries, match)

StatRecords(aid, stat_type) ==
    LET match(d) == d.analysis_id = aid /\ d.stat_type = stat_type
    IN  SelectSeq(stats, match)

\* C26: whatever crashes and resumed runs a workload job went through, its
\* stored query records and stat records are those of one uninterrupted
\* execution of each phase: no more records of a query type or stat type
\* than the phase's query returns rows, none of them twice.
CrashReplayConverges ==
    \A aid \in AnalysisIds :
        /\ \A ph \in QueryPhases :
              Len(QueryRecords(aid, QueryType(ph))) <= Len(Rows(ph))
        /\ \A ph \in StatPhases :
              Len(StatRecords(aid, ph)) <= Len(Rows(ph))

\* C27: a workload job that start_analysis marked completed stores a summary
\* with an entry for every phase in its phases_completed, the phases an
\* earlier run completed included.
SummaryCoversCompletedPhases ==
    \A aid \in AnalysisIds :
        (HasAnalysis(analyses, aid)
         /\ get_analysis(analyses, aid).status = "completed")
        => \A ph \in Range(get_analysis(analyses, aid).phases_completed) :
              \E e \in get_analysis(analyses, aid).summary : e.id = ph

\* the phases of this run whose execution raised: inside the phase, where
\* the result reports the error, or out of _execute_phase, where there is
\* no result
Erred ==
    {e.id : e \in {x \in summary : x.error}}
    \cup {id \in Range(executed) : wpc # "error" => \A e \in summary : e.id # id}

\* C28: a start_analysis run in which a phase raised goes on: when it
\* leaves its loop uncancelled it has executed every phase that was not
\* completed before, in the PHASES order, and when it has returned
\* uncancelled the job is marked completed.
ErrorsDoNotStopRun ==
    Erred # {}
    => /\ IsPrefix(executed, Remaining(resumed_from))
       /\ (wpc = "finish" /\ ~w_cancel_flag)
          => executed = Remaining(resumed_from)
       /\ (wpc = "idle" /\ w_outcome = "completed")
          => /\ executed = Remaining(resumed_from)
             /\ get_analysis(analyses, analysis_id).status = "completed"

\* the first query failed and the last phase raised; the run executed all
\* six phases and marked the job completed
CompletedDespitePhaseErrors ==
    /\ wpc = "idle" /\ w_outcome = "completed"
    /\ [id |-> "query_digest", error |-> TRUE] \in summary
    /\ \A e \in summary : e.id # "recommendations"
    /\ executed = PhaseIds
    /\ get_analysis(analyses, analysis_id).status = "completed"

\* C25: a start_scan call that raises because the listing of the tables
\* failed (the database has tables and the resume target, if any, exists)
\* returns to its caller at once and leaves the stores as they were: no job
\* record, no event, no table result is created.
ListingFailureLeavesNoTrace ==
    [][(/\ StartScanCalled
        /\ outcome' = "raised"
        /\ db # {}
        /\ resumed_id' # NoScanId => HasScan(scans_collection, resumed_id'))
       => /\ pc' = "idle"
          /\ scan_id' = NoScanId
          /\ UNCHANGED storeVars]_vars

\* a new scan of a database with tables raised at the listing before any
\* run got past it: the three stores are empty
ListingFailed ==
    /\ pc = "idle" /\ outcome = "raised"
    /\ db # {}
    /\ resumed_id = NoScanId
    /\ nruns = 0
    /\ scans_collection = <<>> /\ tables_collection = <<>>
    /\ logs_collection = <<>>

CountedUnitsWereAnnounced ==
    /\ \A k \in DOMAIN scans_collection :
          scans_collection[k].processed_tables
             <= Cardinality({t \in TableNames :
                                <<scans_collection[k].scan_id, t>> \in started})
    /\ pc # "idle"
       => \A t \in processed_tables \cup Range(visited) :
             <<scan_id, t>> \in started

\* the counter rose with the progress write before a unit, on account of
\* the unit before it, whose analysis had raised
CountRoseAfterFailedUnit ==
    /\ pc = "analyze"
    /\ resumed_id = NoScanId
    /\ visited # <<>>
    /\ Range(visited) = failed
    /\ Job.processed_tables = Len(visited)
    /\ Job.current_table = table_name

\* C24: a get_progress call for a scan id or an analysis id that has no job
\* record returns None, and no get_progress call creates or changes a
\* record of any collection.
PollOfUnknownFindsNothing ==
    [][npolls' = npolls + 1
       => /\ (polled'.engine = "scanner"
              /\ ~HasScan(scans_collection, polled'.id))
             => poll_result' = None
          /\ (polled'.engine = "workload"
              /\ ~HasAnalysis(analyses, polled'.id))
             => poll_result' = None
          /\ UNCHANGED <<storeVars, analyses, recordVars>>]_vars

\* a scan id no job has was asked for while another scan job and a workload
\* job exist: nothing was returned and no job was made for it
UnknownScanPolled ==
    /\ npolls > 0
    /\ polled.engine = "scanner"
    /\ ~HasScan(scans_collection, polled.id)
    /\ poll_result = None
    /\ scans_collection # <<>>
    /\ analyses # <<>>

\* position of a table in a listing
Pos(listing, t) == CHOOSE k \in DOMAIN listing : listing[k] = t

\* the tables whose result this run has written so far, in the order of the
\* writes: the units taken to their end without an error, and the unit whose
\* result is saved and whose progress write is still to come
WrittenThisRun ==
    LET done(t) == t \notin failed
    IN  SelectSeq(visited, done)
        \o (IF pc = "post" THEN <<table_name>> ELSE <<>>)

\* C31: within one start_scan run the table results are written in the order
\* of the listing restricted to the pending tables: a result written later
\* belongs to a table further down the listing (no reordering, no repeat),
\* only pending tables are written, and no pending table before a written
\* one is left out unless its analysis raised, batch boundaries included
WritesFollowListing ==
    pc # "idle" =>
        LET w == WrittenThisRun
            listing == get_real_tables(db)
        IN  /\ \A a \in DOMAIN w, b \in DOMAIN w :
                  a < b => Pos(listing, w[a]) < Pos(listing, w[b])
            /\ \A k \in DOMAIN w :
                  /\ w[k] \notin processed_tables
                  /\ HasResult(tables_collection, scan_id, w[k])
            /\ \A t \in Range(listing) \ processed_tables :
                  (\E k \in DOMAIN w : Pos(listing, t) < Pos(listing, w[k]))
                      => t \in Range(w) \cup failed

\* a resumed run has written results on both sides of a batch boundary
WroteAcrossBatches ==
    /\ pc # "idle"
    /\ resumed_id # NoScanId
    /\ processed_tables # {}
    /\ i >= BATCH_SIZE
    /\ Len(WrittenThisRun) > BATCH_SIZE

\* the stored result of a table of the job under way
StoredResult(t) == tables_collection[ResultIdx(tables_collection, scan_id, t)]

\* C32: a unit whose metadata fetch hit the table timeout is not failed: its
\* result has no indexes and no metadata, that result is what the store holds
\* once the unit is over, the job's counter then includes the unit, and no
\* step adds an entry to the job's error log for it
TimeoutYieldsEmptyResult ==
    /\ [](\A t \in TableNames :
            (pc # "idle" /\ <<nruns, t>> \in timed_out) =>
                /\ t \notin failed
                /\ (pc \in {"save", "post"} /\ table_name = t) =>
                      /\ result.metadata = "empty"
                      /\ result.indexes = 0
                /\ (t \in Range(visited) \/ (pc = "post" /\ table_name = t)) =>
                      /\ HasResult(tables_collection, scan_id, t)
                      /\ StoredResult(t).metadata = "empty"
                      /\ StoredResult(t).indexes = 0
                /\ (pc = "unit" /\ visited # <<>> /\ visited[Len(visited)] = t) =>
                      /\ Job.processed_tables = processed_count
                      /\ Job.processed_tables
                            = Cardinality(processed_tables) + Len(visited))
    /\ [][\A t \in TableNames :
            (pc # "idle" /\ <<nruns, t>> \in timed_out) =>
                LET after == get_scan(scans_collection', scan_id).errors
                IN  \A k \in DOMAIN after :
                        (k > Len(Job.errors)) => after[k].table # t]_vars

\* a unit that hit the timeout is over and the run goes on
TimedOutUnitCounted ==
    /\ pc = "unit"
    /\ visited # <<>>
    /\ <<nruns, visited[Len(visited)]>> \in timed_out
    /\ Job.processed_tables = processed_count

\* the sum of the deltas for one counter that the update_scan_progress calls
\* in `calls` passed for job sid once create_scan had made it
RECURSIVE DeltaSum(_, _, _, _)
DeltaSum(calls, sid, key, created) ==
    IF calls = <<>> THEN 0
    ELSE LET call == Head(calls)
         IN  IF call.scan_id # sid
             THEN DeltaSum(Tail(calls), sid, key, created)
             ELSE IF call.op = "create_scan"
             THEN DeltaSum(Tail(calls), sid, key, TRUE)
             ELSE IF /\ call.op = "update_scan_progress"
                     /\ created
                     /\ key \in DOMAIN call.stats_delta
             THEN call.stats_delta[key]
                  + DeltaSum(Tail(calls), sid, key, created)
             ELSE DeltaSum(Tail(calls), sid, key, created)

\* C33: after any sequence of ScanPersistence calls each aggregate counter of
\* a job equals the sum of the deltas the update_scan_progress calls on it
\* have passed for that counter; a call without deltas adds nothing
StatsAreSumsOfDeltas ==
    \A sid \in PersistIds :
        HasScan(scans_collection, sid) =>
            \A key \in DOMAIN ZeroStats :
                get_scan(scans_collection, sid).stats[key]
                    = DeltaSum(pcalls, sid, key, FALSE)

\* a job has taken the deltas of two calls
TwoDeltasAdded ==
    \E sid \in PersistIds :
        /\ Len(pcalls) = 3
        /\ pcalls[1] = [op |-> "create_scan", scan_id |-> sid,
                        table_name |-> NoTable, stats_delta |-> NoDelta]
        /\ \A k \in 2..3 :
              /\ pcalls[k].op = "update_scan_progress"
              /\ pcalls[k].scan_id = sid
              /\ pcalls[k].stats_delta # NoDelta
        /\ get_scan(scans_collection, sid).stats.total_indexes = 2

\* the workload job of the run under way, after a step
AnalysisAfter == get_analysis(analyses', analysis_id)

\* C34: cancel() on the workload analyzer is seen at the head of the phase
\* loop only. While the process lives, a phase that has begun goes on to its
\* completion mark and its progress write (or to its error write when it
\* raises) whatever the flag says; with the flag set no phase is begun; and
\* a run that ends with the flag set does not write COMPLETED
CancelOnlyBetweenPhases ==
    [][/\ (wpc \in {"exec", "mark", "post", "error"} /\ wpc' # "idle") =>
            /\ wpc = "exec" => wpc' \in {"exec", "mark", "error"}
            /\ wpc = "mark" =>
                  /\ wpc' \in {"mark", "post"}
                  /\ wpc' = "post" =>
                        phase.id \in Range(AnalysisAfter.phases_completed)
            /\ wpc = "post" =>
                  /\ wpc' \in {"post", "head"}
                  /\ wpc' = "head" =>
                        /\ AnalysisAfter.progress_percentage = phase.progress
                        /\ AnalysisAfter.current_phase = phase.desc
            /\ wpc = "error" => wpc' \in {"error", "head"}
       /\ (w_cancel_flag /\ wpc = "head") =>
            /\ wpc' \in {"finish", "idle"}
            /\ analyses' = analyses
       /\ (w_cancel_flag /\ wpc = "finish") => analyses' = analyses]_vars

\* cancel() came while a phase was under way and the phase has since got its
\* completion mark
CancelledPhaseStillMarked ==
    /\ w_cancel_flag
    /\ wpc = "post"
    /\ phase_idx < Len(PHASES)
    /\ phase.id \in Range(get_analysis(analyses, analysis_id).phases_completed)
    /\ get_analysis(analyses, analysis_id).status # "completed"

\* C35: when an attempt of execute_with_retry ended in the query timeout and
\* another attempt is to follow, the pool has been dropped and the call has
\* waited min(2^attempt, 10) seconds since the timeout, as it does after a
\* retryable connector error
TimeoutBacksOff ==
    (last_outcome.kind = "timeout" /\ rpc = "try") =>
        /\ pool = NoPool
        /\ sleeps # <<>>
        /\ sleeps[Len(sleeps)] = Backoff(last_outcome.attempt)
        /\ waits[Len(waits)] >= Backoff(last_outcome.attempt)

\* C36: once the index_usage phase of a run has saved its rows, the store
\* holds one index_usage record of the job per distinct (table_name,
\* index_name) of the rows, and the unused indexes the recommendations phase
\* finds in the stored records are as many as the phase saw in its rows
OneStatPerIndex ==
    ([id |-> "index_usage", error |-> FALSE] \in summary) =>
        LET rows == Rows("index_usage")
            records == StatRecords(analysis_id, "index_usage")
        IN  /\ Len(records)
                  = Cardinality({<<rows[k].table_name, rows[k].index_name>> :
                                    k \in DOMAIN rows})
            /\ Len(Unused(records)) = Len(Unused(rows))

\* C37: a cancel() called during a scan is not lost to other start_scan calls
\* on the engine: once it was called, the scan under way begins no unit
CancelNeverLost ==
    [][(cancel_requested /\ pc = "unit") => pc' # "analyze"]_vars

\* C38: when start_scan has returned its scan_id, the job's stored status is
\* COMPLETED, FAILED or CANCELLED, also when the run ended because of
\* cancel()
ReturnLeavesTerminalStatus ==
    (pc = "idle" /\ outcome = "returned") => Job.status \in TerminalStatuses

\* C39: a phase whose query raised in this run is not in the job's
\* phases_completed (a resumed run would execute it again)
FailedPhaseNotCompleted ==
    analysis_id # NoAnalysisId =>
        \A e \in summary :
            e.error =>
                e.id \notin
                    Range(get_analysis(analyses, analysis_id).phases_completed)

\* the sum of one field over the stored table results of a job
RECURSIVE ResultSum(_, _, _)
ResultSum(sid, tables, field) ==
    IF tables = {} THEN 0
    ELSE LET t == CHOOSE u \in tables : TRUE
         IN  tables_collection[ResultIdx(tables_collection, sid, t)][field]
             + ResultSum(sid, tables \ {t}, field)

\* C40: a job marked COMPLETED with an empty error log has aggregate stats
\* that agree with its stored table results: issues_found, total_indexes and
\* total_rows are the sums of the issues, indexes and rows of the results,
\* whatever crashes and resumed runs came before
StatsMatchStoredResults ==
    \A sid \in ScanIds :
        (/\ HasScan(scans_collection, sid)
         /\ get_scan(scans_collection, sid).status = "completed"
         /\ get_scan(scans_collection, sid).errors = <<>>) =>
            LET job == get_scan(scans_collection, sid)
                stored == get_processed_tables(tables_collection, sid)
            IN  /\ job.stats.issues_found = ResultSum(sid, stored, "issues")
                /\ job.stats.total_indexes = ResultSum(sid, stored, "indexes")
                /\ job.stats.total_rows = ResultSum(sid, stored, "row_count")
====
